---- MODULE Spec2Model ----
(***************************************************************************)
(* Verification model of the logistics coordination apps (src/apps):       *)
(*   - truck-cost allocation to pallets (app2.py) and waybills (app1.py)   *)
(*   - upsert_waybill_summary_partial (app2.py)                            *)
(*   - allocate_unique_seq on the pallet registry (app.py, test1.py)       *)
(*   - pallet binding validation / staging / SUBMIT (app.py)               *)
(* Each subsystem has its own specification (SpecAlloc, SpecUpsert,        *)
(* SpecSeq, SpecBind); the variables of the other subsystems are frozen.   *)
(***************************************************************************)
EXTENDS Integers, Sequences, FiniteSets, TLC

VARIABLES
    \* ---- truck-cost allocation ----
    total,      \* total truck cost typed by the user, in mills (1/1000)
    weights,    \* weights of the locked rows, in input order
    amounts,    \* the column 分摊费用 after the handler ran, in cents
    shown,      \* the column 总费用 = round(total, 2), in cents
    apc,        \* "input" | "pallet" | "waybill" | "stopped"
    \* ---- upsert into the sheet 运单全链路汇总 ----
    master,     \* the sheet: [header |-> row 1, rows |-> rows 2..]
    delta,      \* df_delta, one record per waybill
    prev,       \* the sheet as the last run found it
    ref,        \* the sheet one uninterrupted run makes of the first sheet
    trail,      \* the runs so far: "full" | "killed"
    ret,        \* outcome of the last run
    \* ---- allocate_unique_seq on the sheet 托盘号注册表 ----
    reg,        \* number of rows of the registry (row 1 is the header)
    spc,        \* per caller: "idle" | "append" | "fallback" | "done" | "raised"
    tries,      \* per caller: attempts of _retry used up
    sfloor,     \* per caller: largest row number returned before it started
    done,       \* the calls that returned: [proc, res, via, floor]
    now,        \* the clock, in seconds
    \* ---- pallet binding (app.py) ----
    allowed,    \* allowed_map: 到仓箱数 per waybill, -1 where it is NaN
    uploaded,   \* 箱数 per waybill summed over the rows of 托盘明细表
    open,       \* per session: st.session_state["all_pallets"]
    staged,     \* per session: st.session_state["pallet_detail_records"]
    submits,    \* number of SUBMIT clicks so far
    lastBind,   \* what the last click on 确认绑定 saw and answered
    \* ---- waybill extraction from a 运单清单 cell (app2.py) ----
    cell,       \* the cell text, a sequence of lexemes
    xfn,        \* "none" | "and_po" | "pure": the function that ran
    wb_list,    \* the waybill list it returned
    \* ---- one run of a retry helper (app.py, app2.py) ----
    rh,         \* the helper that runs
    rtruthy,    \* whether the response of an APIError counts as true
    rcalls,     \* calls of the wrapped function so far
    rsleeps,    \* calls of time.sleep so far
    rfaults,    \* the statuses of the failed calls, in order
    rout,       \* "running" | "value" | "none" | "raised"
    \* ---- build_waybill_delta: the cost column (app2.py) ----
    track,      \* the tracking records: waybills and cost
    weight_map, \* 收费重 per waybill, 0 where it is missing or NaN
    wb2_cost,   \* cost gathered per waybill, an exact fraction
    row_i,      \* the record the loop is at
    fee,        \* the column 发走费用 of the result, in cents
    dph,        \* "loop" | "done"
    \* ---- shipping pallets to the sheet 发货追踪 (app2.py) ----
    track_rows, \* the rows of 发货追踪 below the header: their pallet IDs
    pid_hdr,    \* the header of its pallet column
    sel_locked, \* per session: st.session_state.sel_locked
    locked_df,  \* per session: the pallets of st.session_state.locked_df
    shipped_seen, \* per session: the shipped pallets the page hides
    \* ---- generate_pallet_id (app.py) ----
    pwarehouse, \* the argument warehouse, a string
    pseq,       \* the sequence number and where it came from
    pid,        \* the ID returned, by field
    \* ---- the tracking records behind build_waybill_delta (app2.py) ----
    ttrack,     \* the data rows of 发货追踪, as the sheet holds them
    tover,      \* st.session_state["_track_override"], <<>> when there is none
    tmaster,    \* the sheet 运单全链路汇总 of the rounds
    tbuilt,     \* the last call of build_waybill_delta: what it read and returned
    tph,        \* "idle" | "uploaded" | "synced" | "built"
    \* ---- upsert_transfer_rows (app3.py) ----
    ws_trn,     \* the sheet 转仓追踪: its header row and its data rows
    trn_prev,   \* the sheet as the last run of upsert_transfer_rows read it
    rows_dicts, \* the batch of the last run
    trn_runs,   \* the number of runs so far
    \* ---- the buttons 新建托盘 and 批量新建托盘 with any sequence source (app.py) ----
    all_pallets, \* st.session_state["all_pallets"]: the open pallets of the session
    new_pallet,  \* the ID generated last in the running handler, 0 if none
    gen_tries,   \* tries of the running handler
    created,     \* created of the bulk handler
    bulk_left,   \* the passes of the bulk loop still to come
    cpc,         \* "idle" | "one" | "bulk" | "bulk_loop"
    creg,        \* the rows of the registry sheet
    cnow         \* the clock, in seconds

allocVars == <<total, weights, amounts, shown, apc>>

upsertVars == <<master, delta, prev, ref, trail, ret>>

seqVars == <<reg, spc, tries, sfloor, done, now>>

bindVars == <<allowed, uploaded, open, staged, submits, lastBind>>

extractVars == <<cell, xfn, wb_list>>

retryVars == <<rh, rtruthy, rcalls, rsleeps, rfaults, rout>>

deltaVars == <<track, weight_map, wb2_cost, row_i, fee, dph>>

shipVars == <<track_rows, pid_hdr, sel_locked, locked_df, shipped_seen>>

pidVars == <<pwarehouse, pseq, pid>>

trackVars == <<ttrack, tover, tmaster, tbuilt, tph>>

transferVars == <<ws_trn, trn_prev, rows_dicts, trn_runs>>

createVars == <<all_pallets, new_pallet, gen_tries, created, bulk_left, cpc, creg, cnow>>

\* the variables of the subsystems that follow pallet binding
restVars == <<extractVars, retryVars, deltaVars, shipVars, pidVars, trackVars, transferVars, createVars>>

\* what the extraction leaves alone
extractFrame == <<allocVars, upsertVars, seqVars, bindVars, retryVars, deltaVars, shipVars, pidVars, trackVars, transferVars, createVars>>

\* what a run of a retry helper leaves alone
retryFrame == <<allocVars, upsertVars, seqVars, bindVars, extractVars, deltaVars, shipVars, pidVars, trackVars, transferVars, createVars>>

\* what build_waybill_delta leaves alone
deltaFrame == <<allocVars, upsertVars, seqVars, bindVars, extractVars, retryVars, shipVars, pidVars, trackVars, transferVars, createVars>>

\* what the shipping page leaves alone
shipFrame == <<allocVars, upsertVars, seqVars, bindVars, extractVars, retryVars, deltaVars, pidVars, trackVars, transferVars, createVars>>

\* what generate_pallet_id leaves alone
pidFrame == <<allocVars, upsertVars, seqVars, bindVars, extractVars, retryVars, deltaVars, shipVars, trackVars, transferVars, createVars>>

vars == <<allocVars, upsertVars, seqVars, bindVars, restVars>>

(***************************************************************************)
(* Bounds                                                                  *)
(***************************************************************************)
MaxTotalMills == 46
MaxWeight == 2
MaxUnits == 5
MaxRows == 2
MaxDeltaRows == 2
MaxRuns == 2
MaxProcs == 2
MaxClock == 1
MaxSessions == 2
MaxPallets == 2
MaxCap == 1
MaxSubmits == 1
MaxAllocRows == 3

(***************************************************************************)
(* Generic helpers                                                         *)
(***************************************************************************)
RECURSIVE SumSeq(_)
SumSeq(s) == IF s = <<>> THEN 0 ELSE Head(s) + SumSeq(Tail(s))

Abs(x) == IF x < 0 THEN -x ELSE x

SeqsUpTo(S, n) == UNION { [1..k -> S] : k \in 1..n }

(***************************************************************************)
(* Truck-cost allocation                                                   *)
(*                                                                         *)
(* Money is kept exactly: the total in mills, amounts in cents.  The code  *)
(* works in binary floating point; a value that is not a decimal tie is    *)
(* rounded the same way by the floats and by exact arithmetic, while at a  *)
(* decimal tie (x.xx5) the float result is decided by the representation   *)
(* error of the operands, which the model does not track: there the        *)
(* result is either neighbour (tieUp chooses; npUp[i] for row i of         *)
(* Series.round, pyUp for round(total - sum, 2), totUp for                 *)
(* round(total, 2)).  total - 0.0 is total itself, so with a zero sum the  *)
(* last two roundings are one and the same.                                *)
(***************************************************************************)
\* round(num/den) to an integer, den > 0; tieUp decides an exact tie.
RoundDiv(num, den, tieUp) ==
    LET fl  == num \div den
        rem == num - fl * den
    IN  IF 2 * rem < den THEN fl
        ELSE IF 2 * rem > den THEN fl + 1
        ELSE IF tieUp THEN fl + 1 ELSE fl

\* selected["分摊费用"] = (weights / wt_sum * total).round(2), in cents
RoundedShares(t, ws, npUp) ==
    [i \in 1..Len(ws) |-> RoundDiv(ws[i] * t, 10 * SumSeq(ws), npUp[i])]

\* diff = round(total - selected["分摊费用"].sum(), 2), in cents
DiffCost(t, r, tieUp) == RoundDiv(t - 10 * SumSeq(r), 10, tieUp)

\* the last row holding the largest value
IdxMaxLast(r) ==
    CHOOSE i \in 1..Len(r) :
        /\ \A j \in 1..Len(r) : r[j] <= r[i]
        /\ \A j \in (i + 1)..Len(r) : r[j] < r[i]

\* Series.idxmax(): the first row holding the largest value
IdxMax(r) ==
    CHOOSE i \in 1..Len(r) :
        /\ \A j \in 1..Len(r) : r[j] <= r[i]
        /\ \A j \in 1..(i - 1) : r[j] < r[i]

\* app2.py: the residual goes to the row with the largest rounded amount
AllocatePallets(t, ws, npUp, pyUp) ==
    LET r    == RoundedShares(t, ws, npUp)
        diff == DiffCost(t, r, pyUp)
    IN  IF Abs(diff) >= 1
        THEN [r EXCEPT ![IdxMax(r)] = r[IdxMax(r)] + diff]
        ELSE r

\* app1.py: the residual goes to the last row
AllocateWaybills(t, ws, npUp, pyUp) ==
    LET r    == RoundedShares(t, ws, npUp)
        diff == DiffCost(t, r, pyUp)
    IN  IF Abs(diff) >= 1
        THEN [r EXCEPT ![Len(r)] = r[Len(r)] + diff]
        ELSE r

\* the guards before the allocation: st.stop() on a non-positive total or on
\* a missing / non-positive weight
AllocInputsOk(t, ws) ==
    /\ t > 0
    /\ \A i \in 1..Len(ws) : ws[i] > 0
    /\ SumSeq(ws) > 0

\* a sheet without any cell: get_all_values() returns []
EmptySheet == [header |-> <<>>, rows |-> <<>>]

\* the upsert variables while another subsystem is examined
UpsertFrozen ==
    /\ master = EmptySheet
    /\ delta = <<>>
    /\ prev = EmptySheet
    /\ ref = EmptySheet
    /\ trail = <<>>
    /\ ret = "none"

Procs == 1..MaxProcs

Sessions == 1..MaxSessions

Waybills == {"W1", "W2"}

\* no click on 确认绑定 yet (or another handler ran since)
NoBind ==
    [sess |-> 0, pallet |-> 0, entries |-> <<>>, read |-> "none", before |-> <<>>,
     openBefore |-> <<>>, violations |-> <<>>, missing_info |-> <<>>]

\* the registry variables while another subsystem is examined
SeqFrozen ==
    /\ reg = 1
    /\ spc = [p \in Procs |-> "idle"]
    /\ tries = [p \in Procs |-> 0]
    /\ sfloor = [p \in Procs |-> 0]
    /\ done = {}
    /\ now = 0

\* the binding variables while another subsystem is examined
BindFrozen ==
    /\ allowed = [w \in Waybills |-> -1]
    /\ uploaded = [w \in Waybills |-> 0]
    /\ open = [s \in Sessions |-> <<>>]
    /\ staged = [s \in Sessions |-> <<>>]
    /\ submits = 0
    /\ lastBind = NoBind

\* the extraction variables while another subsystem is examined
ExtractFrozen ==
    /\ cell = <<>>
    /\ xfn = "none"
    /\ wb_list = <<>>

\* the retry variables while another subsystem is examined
RetryFrozen ==
    /\ rh = "_retry"
    /\ rtruthy = TRUE
    /\ rcalls = 0
    /\ rsleeps = 0
    /\ rfaults = <<>>
    /\ rout = "value"

\* the variables of build_waybill_delta while another subsystem is examined
DeltaFrozen ==
    /\ track = <<>>
    /\ weight_map = <<>>
    /\ wb2_cost = <<>>
    /\ row_i = 0
    /\ fee = <<>>
    /\ dph = "done"

\* the shipping variables while another subsystem is examined
ShipFrozen ==
    /\ track_rows = <<>>
    /\ pid_hdr = "pid"
    /\ sel_locked = <<>>
    /\ locked_df = <<>>
    /\ shipped_seen = <<>>

\* the variables of generate_pallet_id while another subsystem is examined
PidFrozen ==
    /\ pwarehouse = <<>>
    /\ pseq = <<>>
    /\ pid = <<>>

\* the tracking variables while another subsystem is examined
TrackFrozen ==
    /\ ttrack = <<>>
    /\ tover = <<>>
    /\ tmaster = EmptySheet
    /\ tbuilt = <<>>
    /\ tph = "idle"

\* the variables of upsert_transfer_rows while another subsystem is examined
TransferFrozen ==
    /\ ws_trn = EmptySheet
    /\ trn_prev = EmptySheet
    /\ rows_dicts = <<>>
    /\ trn_runs = 0

\* the variables of the creating buttons while another subsystem is examined
CreateFrozen ==
    /\ all_pallets = <<>>
    /\ new_pallet = 0
    /\ gen_tries = 0
    /\ created = <<>>
    /\ bulk_left = 0
    /\ cpc = "idle"
    /\ creg = 1
    /\ cnow = 0

RestFrozen ==
    /\ ExtractFrozen
    /\ RetryFrozen
    /\ DeltaFrozen
    /\ ShipFrozen
    /\ PidFrozen
    /\ TrackFrozen
    /\ TransferFrozen
    /\ CreateFrozen

AllocInit ==
    /\ RestFrozen
    /\ UpsertFrozen
    /\ SeqFrozen
    /\ BindFrozen
    /\ total \in 0..MaxTotalMills
    /\ weights \in SeqsUpTo(0..MaxWeight, MaxUnits)
    /\ amounts = <<>>
    /\ shown = 0
    /\ apc = "input"

ShipPallets ==
    /\ apc = "input"
    /\ AllocInputsOk(total, weights)
    /\ \E npUp \in [1..Len(weights) -> BOOLEAN], pyUp \in BOOLEAN, totUp \in BOOLEAN :
          /\ SumSeq(RoundedShares(total, weights, npUp)) = 0 => totUp = pyUp
          /\ amounts' = AllocatePallets(total, weights, npUp, pyUp)
          /\ shown' = RoundDiv(total, 10, totUp)
    /\ apc' = "pallet"
    /\ UNCHANGED <<total, weights, upsertVars, seqVars, bindVars, restVars>>

ShipWaybills ==
    /\ apc = "input"
    /\ AllocInputsOk(total, weights)
    /\ \E npUp \in [1..Len(weights) -> BOOLEAN], pyUp \in BOOLEAN, totUp \in BOOLEAN :
          /\ SumSeq(RoundedShares(total, weights, npUp)) = 0 => totUp = pyUp
          /\ amounts' = AllocateWaybills(total, weights, npUp, pyUp)
          /\ shown' = RoundDiv(total, 10, totUp)
    /\ apc' = "waybill"
    /\ UNCHANGED <<total, weights, upsertVars, seqVars, bindVars, restVars>>

ShipStopped ==
    /\ apc = "input"
    /\ ~AllocInputsOk(total, weights)
    /\ apc' = "stopped"
    /\ UNCHANGED <<total, weights, amounts, shown, upsertVars, seqVars, bindVars, restVars>>

AllocNext == ShipPallets \/ ShipWaybills \/ ShipStopped

SpecAlloc == AllocInit /\ [][AllocNext]_vars

C2_NonNegative ==
    apc \in {"pallet", "waybill"} => \A i \in 1..Len(amounts) : amounts[i] >= 0

\* the allocation over pallets alone, on a selection of a few pallets
PalletAllocInit ==
    /\ AllocInit
    /\ Len(weights) <= MaxAllocRows

PalletAllocNext == ShipPallets \/ ShipStopped

SpecPalletAlloc == PalletAllocInit /\ [][PalletAllocNext]_vars

\* the rows of r that hold its largest value
Largest(r) == { i \in 1..Len(r) : \A j \in 1..Len(r) : r[j] <= r[i] }

IdCol == "waybill_no"

\* the modelled columns of MANAGED_COLS, in the order of the source
MANAGED_COLS == <<"waybill_no", "eta", "arrive_date", "ship_truck", "ship_cost">>

WRITE_POLICY(col) ==
    CASE col = "arrive_date" -> "blank_only"
      [] col = "ship_cost"   -> "blank_only"
      [] col = "ship_truck"  -> "merge_set"
      [] OTHER               -> "default"

is_date_col(col) == col \in {"arrive_date"}

MERGE_SEP == ","

\* the lexemes matched by the split pattern [,，;；|/ ]+
Delims == {",", ", ", ";", " "}

\* float('nan'), what a left merge leaves for a missing value
NaN == <<"nan">>

\* pd.NA, what build_waybill_delta assigns itself; str(pd.NA) is "<NA>"
PdNA == <<"<NA>">>

\* the texts pd.to_datetime(s, format="%Y-%m-%d") accepts
IsoDates == {<<"2025-01-02">>}

\* what the sheet returns (UNFORMATTED_VALUE, SERIAL_NUMBER) for a value
\* written with USER_ENTERED: a date text has become a serial number
UserEntered(v) == IF v \in IsoDates THEN <<"45659">> ELSE v

cell_blank(x) == x = NaN \/ \A i \in 1..Len(x) : x[i] = " "

is_effective(v) == ~(v = NaN) /\ ~(\A i \in 1..Len(v) : v[i] = " ")

is_iso_date(s) == s \in IsoDates

to_jsonable_cell(v) == IF v = NaN \/ v = PdNA THEN <<>> ELSE v

NotDelim(x) == x \notin Delims

toks(s) == IF cell_blank(s) THEN <<>> ELSE SelectSeq(s, NotDelim)

RECURSIVE Seen(_, _)
Seen(ts, seen) ==
    IF ts = <<>> THEN seen
    ELSE IF \E i \in 1..Len(seen) : seen[i] = Head(ts)
         THEN Seen(Tail(ts), seen)
         ELSE Seen(Tail(ts), Append(seen, Head(ts)))

RECURSIVE JoinSep(_)
JoinSep(ts) ==
    IF Len(ts) <= 1 THEN ts ELSE <<Head(ts), MERGE_SEP>> \o JoinSep(Tail(ts))

merge_set(old, new) == JoinSep(Seen(toks(old) \o toks(new), <<>>))

\* _norm_waybill_str on a cell of the key column: blank gives "", otherwise
\* the text without the surrounding white space
norm_waybill_str(v) ==
    IF cell_blank(v) THEN "" ELSE SelectSeq(v, LAMBDA x : x # " ")[1]

InHeader(h, col) == \E i \in 1..Len(h) : h[i] = col

\* a faulty column index: every column but the key one place to the left
col_idx_left(h, col) ==
    LET i == CHOOSE k \in 1..Len(h) : h[k] = col /\ \A j \in 1..(k - 1) : h[j] # col
    IN  IF col = "waybill_no" THEN i ELSE i - 1

\* header.index(col) + 1
col_idx(h, col) ==
    CHOOSE i \in 1..Len(h) : h[i] = col /\ \A j \in 1..(i - 1) : h[j] # col

missing_cols(h) == SelectSeq(MANAGED_COLS, LAMBDA c : ~InHeader(h, c))

\* ---- the delta ----
\* idx_delta.index
\* "运单号" in df_delta.columns
has_id_col(d) == \A i \in 1..Len(d) : "id" \in DOMAIN d[i]

DeltaIds(d) == IF has_id_col(d) THEN { d[i].id : i \in 1..Len(d) } ELSE {}

\* idx_delta.loc[wb, col]
DeltaVal(d, wb, col) == d[CHOOSE i \in 1..Len(d) : d[i].id = wb].vals[col]

\* ---- the index of the existing rows ----
\* exist_df["运单号"].map(_norm_waybill_str), by position
ExistIds(t, h) ==
    [i \in 1..Len(t.rows) |-> norm_waybill_str(t.rows[i][col_idx(h, IdCol)])]

\* the values of _rowno under one index label (row i of the data is sheet
\* row i + 1)
RowNos(ids, wb) == { i + 1 : i \in { j \in 1..Len(ids) : ids[j] = wb } }

\* pd.DataFrame(vals[1:], columns=header) raises unless the rows read have
\* as many cells as the header has names
DataFrameOk(t, h) == Len(t.rows) = 0 \/ Len(h) = Len(t.header)

\* the test on new_v at the top of the loop body
Passes(col, v) == IF is_date_col(col) THEN is_iso_date(v) ELSE is_effective(v)

\* int(idx_exist.loc[wb, "_rowno"]) raises TypeError on a label that two
\* rows carry
RowNoRaises(t, h, d) ==
    \E c \in 2..Len(MANAGED_COLS) : \E wb \in DeltaIds(d) :
        /\ Passes(MANAGED_COLS[c], DeltaVal(d, wb, MANAGED_COLS[c]))
        /\ Cardinality(RowNos(ExistIds(t, h), wb)) > 1

\* rows_payload of one column, sorted by row number; rno = 0 marks a row
\* for which the loop body ran into a continue
PayloadAt(t, h, d, col, i) ==
    LET wb    == ExistIds(t, h)[i]
        new_v == DeltaVal(d, wb, col)
        old_v == t.rows[i][col_idx(h, col)]
        skip  == [rno |-> 0, v |-> <<>>]
    IN  IF wb \notin DeltaIds(d) THEN skip
        ELSE IF ~Passes(col, new_v) THEN skip
        ELSE IF WRITE_POLICY(col) = "blank_only" /\ ~cell_blank(old_v) THEN skip
        ELSE IF WRITE_POLICY(col) = "merge_set"
             THEN [rno |-> i + 1, v |-> to_jsonable_cell(merge_set(old_v, new_v))]
             ELSE [rno |-> i + 1, v |-> to_jsonable_cell(new_v)]

rows_payload(t, h, d, col) ==
    SelectSeq([i \in 1..Len(t.rows) |-> PayloadAt(t, h, d, col, i)],
              LAMBDA e : e.rno # 0)

\* the length of the first run of consecutive row numbers
RECURSIVE RunLen(_)
RunLen(rv) ==
    IF Len(rv) >= 2 /\ rv[2].rno = rv[1].rno + 1 THEN 1 + RunLen(Tail(rv)) ELSE 1

\* one range dict per run of consecutive rows
RECURSIVE pack_ranges_for_col(_, _)
pack_ranges_for_col(col_idx_1based, rowvals) ==
    IF rowvals = <<>> THEN <<>>
    ELSE LET n == RunLen(rowvals)
         IN  << [col    |-> col_idx_1based,
                 row    |-> rowvals[1].rno,
                 values |-> [k \in 1..n |-> rowvals[k].v]] >>
             \o pack_ranges_for_col(col_idx_1based,
                                    SubSeq(rowvals, n + 1, Len(rowvals)))

\* updates: the ranges of the managed columns c..end, in MANAGED_COLS order
RECURSIVE Updates(_, _, _, _)
Updates(t, h, d, c) ==
    IF c > Len(MANAGED_COLS) THEN <<>>
    ELSE IF ~InHeader(h, MANAGED_COLS[c]) THEN Updates(t, h, d, c + 1)
    ELSE pack_ranges_for_col(col_idx(h, MANAGED_COLS[c]),
                             rows_payload(t, h, d, MANAGED_COLS[c]))
         \o Updates(t, h, d, c + 1)

batch_sz == 300

\* updates[i:i + batch_sz] for i = 0, batch_sz, ...
RECURSIVE Chunks(_)
Chunks(u) ==
    IF u = <<>> THEN <<>>
    ELSE IF Len(u) <= batch_sz THEN << u >>
    ELSE << SubSeq(u, 1, batch_sz) >> \o Chunks(SubSeq(u, batch_sz + 1, Len(u)))

\* sorted(): the waybill numbers of the model in ascending order
IdOrder == <<"W1", "W2">>

\* new_ids = list(idx_delta.index.difference(idx_exist.index)), sorted
new_ids(t, h, d) ==
    SelectSeq(IdOrder,
              LAMBDA wb : /\ wb \in DeltaIds(d)
                          /\ \A i \in 1..Len(t.rows) : ExistIds(t, h)[i] # wb)

\* [row_dict.get(c, "") for c in header] of one new waybill
NewRow(h, d, wb) ==
    [j \in 1..Len(h) |->
        IF h[j] = IdCol THEN <<wb>>
        ELSE IF InHeader(MANAGED_COLS, h[j]) /\ is_effective(DeltaVal(d, wb, h[j]))
             THEN to_jsonable_cell(DeltaVal(d, wb, h[j]))
             ELSE <<>>]

new_rows(t, h, d) ==
    [k \in 1..Len(new_ids(t, h, d)) |-> NewRow(h, d, new_ids(t, h, d)[k])]

\* ---- the write calls of one run, in program order ----
HeaderWrite(h) == [op |-> "header", header |-> h, data |-> <<>>, rows |-> <<>>]
BatchWrite(sub) == [op |-> "batch", header |-> <<>>, data |-> sub, rows |-> <<>>]
AppendWrite(rs) == [op |-> "append", header |-> <<>>, data |-> <<>>, rows |-> rs]

\* a faulty guard: the header is not searched for the key column
config_error_no_key_test(t, d) == t.header = <<>> \/ ~has_id_col(d)

\* the returns of False before anything is written: the sheet is missing,
\* or empty, or its header has no 运单号, or df_delta has no 运单号
config_error(t, d) ==
    t.header = <<>> \/ ~InHeader(t.header, IdCol) \/ ~has_id_col(d)

\* the outcome of upsert_waybill_summary_partial(d) on the sheet t: what it
\* returns ("false", "true", or "raised" for an exception that leaves the
\* function) and the write calls it has made by then
upsert_waybill_summary_partial(t, d) ==
    IF config_error(t, d)
    THEN [ret |-> "false", writes |-> <<>>]
    ELSE LET miss == missing_cols(t.header)
             h    == t.header \o miss
             w1   == IF miss # <<>> THEN << HeaderWrite(h) >> ELSE <<>>
         IN  IF ~DataFrameOk(t, h) THEN [ret |-> "raised", writes |-> w1]
             ELSE IF RowNoRaises(t, h, d) THEN [ret |-> "raised", writes |-> w1]
             ELSE LET ch == Chunks(Updates(t, h, d, 2))
                      w2 == [k \in 1..Len(ch) |-> BatchWrite(ch[k])]
                      nr == new_rows(t, h, d)
                      w3 == IF nr # <<>> THEN << AppendWrite(nr) >> ELSE <<>>
                  IN  [ret |-> "true", writes |-> w1 \o w2 \o w3]

\* ---- the effect of the write calls on the sheet ----
\* ws.update("1:1", [header]): the cells under a new name are empty
ApplyHeader(t, h) ==
    [header |-> h,
     rows   |-> [i \in 1..Len(t.rows) |->
                    [j \in 1..Len(h) |->
                        IF j <= Len(t.rows[i]) THEN t.rows[i][j] ELSE <<>>]]]

\* one range of a batchUpdate
ApplyRange(t, r) ==
    [t EXCEPT !.rows =
        [i \in 1..Len(t.rows) |->
            IF i + 1 >= r.row /\ i + 1 < r.row + Len(r.values)
            THEN [t.rows[i] EXCEPT ![r.col] = UserEntered(r.values[i + 2 - r.row])]
            ELSE t.rows[i]]]

RECURSIVE ApplyRanges(_, _)
ApplyRanges(t, rs) ==
    IF rs = <<>> THEN t ELSE ApplyRanges(ApplyRange(t, Head(rs)), Tail(rs))

\* ws.append_rows(new_rows)
ApplyAppend(t, rs) ==
    [t EXCEPT !.rows =
        t.rows \o [k \in 1..Len(rs) |->
                      [j \in 1..Len(rs[k]) |-> UserEntered(rs[k][j])]]]

ApplyWrite(t, w) ==
    CASE w.op = "header" -> ApplyHeader(t, w.header)
      [] w.op = "batch"  -> ApplyRanges(t, w.data)
      [] w.op = "append" -> ApplyAppend(t, w.rows)

\* the sheet after the first k write calls
RECURSIVE ApplyWrites(_, _, _)
ApplyWrites(t, ws, k) ==
    IF k = 0 \/ ws = <<>> THEN t
    ELSE ApplyWrites(ApplyWrite(t, Head(ws)), Tail(ws), k - 1)

\* the sheet after a run that was not interrupted
UpsertResult(t, d) ==
    LET u == upsert_waybill_summary_partial(t, d)
    IN  ApplyWrites(t, u.writes, Len(u.writes))

\* ---- the sheets and deltas examined ----
FullHeader == <<"waybill_no", "remark", "eta", "arrive_date", "ship_truck", "ship_cost">>
PartHeader == <<"remark", "waybill_no", "ship_truck">>
NoIdHeader == <<"remark", "ship_truck">>

\* what a cell of an existing row may hold, as get_all_values returns it
MasterCells(col) ==
    CASE col = "waybill_no"  -> { <<>>, <<"W1">>, <<"W2", " ">> }
      [] col = "remark"      -> { <<"memo">> }
      [] col = "eta"         -> { <<>>, <<"e0">> }
      [] col = "arrive_date" -> { <<>>, <<"45000">> }
      [] col = "ship_truck"  -> { <<>>, <<"T1">> }
      [] col = "ship_cost"   -> { <<>>, <<"5.0">> }

RECURSIVE RowSet(_)
RowSet(h) ==
    IF h = <<>> THEN { <<>> }
    ELSE { <<c>> \o r : c \in MasterCells(Head(h)), r \in RowSet(Tail(h)) }

\* the number of managed cells of a row, the key apart, that hold something
Filled(h, r) ==
    Cardinality({ j \in 1..Len(h) :
        h[j] # IdCol /\ InHeader(MANAGED_COLS, h[j]) /\ r[j] # <<>> })

\* rows with none or all of the managed cells filled, or the truck alone
MasterRows(h) ==
    { r \in RowSet(h) :
        \/ Filled(h, r) = 0
        \/ Filled(h, r) = Len(MANAGED_COLS) - 1
        \/ Filled(h, r) = 1 /\ r[col_idx(h, "ship_truck")] # <<>> }

SeqsUpTo0(S, n) == UNION { [1..k -> S] : k \in 0..n }

Sheets ==
    { EmptySheet }
    \cup { [header |-> NoIdHeader, rows |-> rs] :
              rs \in SeqsUpTo0(RowSet(NoIdHeader), MaxRows) }
    \cup { [header |-> PartHeader, rows |-> rs] :
              rs \in SeqsUpTo0(RowSet(PartHeader), MaxRows) }
    \cup { [header |-> FullHeader, rows |-> rs] :
              rs \in SeqsUpTo0(MasterRows(FullHeader), MaxRows) }

\* a waybill of which the sources know nothing but its number
AbsentVals ==
    [eta |-> NaN, arrive_date |-> NaN, ship_truck |-> PdNA, ship_cost |-> NaN]

FullVals ==
    [eta |-> <<"e1">>, arrive_date |-> <<"2025-01-02">>,
     ship_truck |-> <<"T1", ", ", "T2">>, ship_cost |-> <<"6.0">>]

\* what build_waybill_delta may put into a column
AllDeltaVals ==
    [eta         : { NaN, PdNA, <<"e1">> },
     arrive_date : { NaN, <<"2025-01-02">>, <<"TBD">> },
     ship_truck  : { PdNA, <<"T2">>, <<"T1", ", ", "T2">> },
     ship_cost   : { NaN, <<"6.0">> }]

Present(v) ==
    Cardinality({ c \in {"eta", "arrive_date", "ship_truck", "ship_cost"} :
                    v[c] # AbsentVals[c] })

DeltaVals == { v \in AllDeltaVals : Present(v) <= 1 } \cup { FullVals }

\* df_delta: one row per waybill, sorted by waybill number
Deltas ==
    { d \in SeqsUpTo([id : {"W1", "W2"}, vals : DeltaVals], MaxDeltaRows) :
        \A i \in 1..Len(d) : \A j \in 1..Len(d) :
            i < j => \E a \in 1..Len(IdOrder) : \E b \in 1..Len(IdOrder) :
                        a < b /\ IdOrder[a] = d[i].id /\ IdOrder[b] = d[j].id }

\* a frame without the column 运单号
NoIdDeltas == { << [vals |-> FullVals] >> }

AllocFrozen ==
    /\ total = 0
    /\ weights = <<>>
    /\ amounts = <<>>
    /\ shown = 0
    /\ apc = "idle"

UpsertInit ==
    /\ RestFrozen
    /\ AllocFrozen
    /\ SeqFrozen
    /\ BindFrozen
    /\ master \in Sheets
    /\ delta \in Deltas \cup NoIdDeltas
    /\ prev = master
    /\ ref = UpsertResult(master, delta)
    /\ trail = <<>>
    /\ ret = "none"

\* one run of the upsert from its first read to its return (or exception)
Upsert ==
    /\ Len(trail) < MaxRuns
    /\ LET u == upsert_waybill_summary_partial(master, delta)
       IN  /\ master' = ApplyWrites(master, u.writes, Len(u.writes))
           /\ ret' = u.ret
    /\ prev' = master
    /\ trail' = Append(trail, "full")
    /\ UNCHANGED <<delta, ref, allocVars, seqVars, bindVars, restVars>>

\* a run that is cut off after k of its write calls
UpsertKilled ==
    /\ trail = <<>>
    /\ LET u == upsert_waybill_summary_partial(master, delta)
       IN  \E k \in 0..Len(u.writes) :
              master' = ApplyWrites(master, u.writes, k)
    /\ ret' = "killed"
    /\ prev' = master
    /\ trail' = Append(trail, "killed")
    /\ UNCHANGED <<delta, ref, allocVars, seqVars, bindVars, restVars>>

UpsertNext == Upsert \/ UpsertKilled

SpecUpsert == UpsertInit /\ [][UpsertNext]_vars

\* ---- what the claims speak of ----
\* the last run went from its first read to its return or exception
LastFull == trail # <<>> /\ trail[Len(trail)] = "full"

\* a sheet cell that holds nothing
BlankCell(c) == \A i \in 1..Len(c) : c[i] = " "

\* a delta value that is there (for a date column: a YYYY-MM-DD text)
DeltaGiven(col, v) ==
    IF is_date_col(col) THEN v \in IsoDates
    ELSE v # NaN /\ v # PdNA /\ ~BlankCell(v)

\* the waybill number of row i of the sheet the last run read
PrevId(i) == norm_waybill_str(prev.rows[i][col_idx(prev.header, IdCol)])

\* C3: for every blank_only column and every row of the sheet that a delta
\* row matches, a run leaves a non-blank cell as it is, and writes the delta
\* value into a blank cell when the delta value is there (a YYYY-MM-DD text
\* for a date column).
C3_BlankOnly ==
    (LastFull /\ InHeader(prev.header, IdCol)) =>
        \A i \in 1..Len(prev.rows) : \A j \in 1..Len(prev.header) :
            ( /\ InHeader(MANAGED_COLS, prev.header[j])
              /\ WRITE_POLICY(prev.header[j]) = "blank_only"
              /\ PrevId(i) \in DeltaIds(delta) ) =>
                LET old   == prev.rows[i][j]
                    new_v == DeltaVal(delta, PrevId(i), prev.header[j])
                IN  /\ ~BlankCell(old) => master.rows[i][j] = old
                    /\ (BlankCell(old) /\ DeltaGiven(prev.header[j], new_v))
                          => master.rows[i][j] = UserEntered(new_v)

\* C4: a second run with the same delta, reading what the first run left,
\* changes nothing: no cell differs and no row is appended.
C4_Idempotent ==
    ( /\ Len(trail) >= 2
      /\ trail[Len(trail)] = "full"
      /\ trail[Len(trail) - 1] = "full" ) => master = prev

\* C5: a run never changes, in a row that was there before, a cell of a
\* column outside MANAGED_COLS, nor the cell of the key column.
C5_Frame ==
    trail # <<>> =>
        /\ Len(master.header) >= Len(prev.header)
        /\ Len(master.rows) >= Len(prev.rows)
        /\ \A i \in 1..Len(prev.rows) : \A j \in 1..Len(prev.header) :
              (~InHeader(MANAGED_COLS, prev.header[j]) \/ prev.header[j] = IdCol)
                 => /\ master.header[j] = prev.header[j]
                    /\ master.rows[i][j] = prev.rows[i][j]

\* a run that returned True has rewritten a managed cell of an existing row
\* next to a cell of a column outside MANAGED_COLS
C5_Witness ==
    /\ LastFull
    /\ ret = "true"
    /\ InHeader(prev.header, "remark")
    /\ \E i \in 1..Len(prev.rows) : master.rows[i] # prev.rows[i]

\* the rows of the sheet the last run read that carry the waybill number wb
PrevRowsOf(wb) == { i \in 1..Len(prev.rows) : PrevId(i) = wb }

\* C27: when the sheet holds several rows with one normalized waybill
\* number and the delta contains that number, the run completes normally
\* and applies the delta to the last of these rows only; the other rows
\* with that number are unchanged.  (Stated for a sheet whose header has
\* every managed column, so that no header is rewritten.)
C27_LastRowWins ==
    (LastFull /\ missing_cols(prev.header) = <<>> /\ has_id_col(delta)) =>
        \A wb \in DeltaIds(delta) :
            Cardinality(PrevRowsOf(wb)) > 1 =>
                /\ ret = "true"
                /\ \A i \in PrevRowsOf(wb) :
                      (\E k \in PrevRowsOf(wb) : i < k) =>
                          \A j \in 1..Len(prev.header) : master.rows[i][j] = prev.rows[i][j]

\* C6: a run cut off after any prefix of its write calls, followed by a run
\* with the same delta, leaves the sheet that one uninterrupted run leaves.
C6_Recovery ==
    trail = <<"killed", "full">> => master = ref

\* C14: a run on a sheet that is missing or has no header, or whose header
\* has no 运单号, or with a delta that has no 运单号, returns False and
\* writes nothing: the header, the cells and the rows are as they were.
C14_NoWriteOnConfigError ==
    ( /\ LastFull
      /\ \/ prev.header = <<>>
         \/ ~InHeader(prev.header, IdCol)
         \/ ~has_id_col(delta) ) =>
        /\ ret = "false"
        /\ master = prev

\* a run returned False for a delta without 运单号 on a sheet that has the
\* key column, rows, and managed columns still to be added to its header
C14_Witness ==
    /\ LastFull
    /\ ret = "false"
    /\ ~has_id_col(delta)
    /\ InHeader(prev.header, IdCol)
    /\ missing_cols(prev.header) # <<>>
    /\ prev.rows # <<>>

\* the tokens of a cell: its pieces between the separators of _merge_set
TokensOf(c) == { toks(c)[k] : k \in 1..Len(toks(c)) }

\* C13: for a merge_set column and a row of the sheet that a delta row
\* matches with a value that is there, a run writes the tokens of the old
\* cell followed by the new tokens of the delta value, each once, in order
\* of first occurrence; every token of the old cell is still there.
C13_MergeUnion ==
    (LastFull /\ InHeader(prev.header, IdCol)) =>
        \A i \in 1..Len(prev.rows) : \A j \in 1..Len(prev.header) :
            ( /\ InHeader(MANAGED_COLS, prev.header[j])
              /\ WRITE_POLICY(prev.header[j]) = "merge_set"
              /\ PrevId(i) \in DeltaIds(delta)
              /\ DeltaGiven(prev.header[j],
                            DeltaVal(delta, PrevId(i), prev.header[j])) ) =>
                LET old   == prev.rows[i][j]
                    new_v == DeltaVal(delta, PrevId(i), prev.header[j])
                IN  /\ master.rows[i][j] = JoinSep(Seen(toks(old) \o toks(new_v), <<>>))
                    /\ TokensOf(old) \subseteq TokensOf(master.rows[i][j])

(***************************************************************************)
(* allocate_unique_seq (app.py, test1.py)                                  *)
(*                                                                         *)
(* Every caller is a Streamlit session that runs the function once.  The   *)
(* registry sheet only grows: nothing in the program removes a row.        *)
(***************************************************************************)
\* _retry(fn, _retries=5)
retries == 5

\* an append that answers without growing the sheet (a faulty registry)
append_row_lost(n) ==
    [rows |-> n, updatedRange |-> [sheet |-> "Sheet1", from |-> <<"A", n + 1>>, to |-> <<"C", n + 1>>]]

\* ws.append_row on a sheet of n rows: the sheet has one row more and the
\* response names the range of the new row, e.g. "Sheet1!A42:C42"
append_row(n) ==
    [rows |-> n + 1, updatedRange |-> [sheet |-> "Sheet1", from |-> <<"A", n + 1>>, to |-> <<"C", n + 1>>]]

\* int(re.search(r"![A-Z]+(\d+):", updated_range).group(1))
row_of(updated_range) == updated_range.from[2]

\* a row count that no other call can be given (a faulty fallback)
row_count_apart(used) == used + 1

\* used = len(_retry(ws.get_all_values)); max(used, 2)
row_count(used) == IF used > 2 THEN used ELSE 2

\* int(datetime.utcnow().timestamp())
Timestamp(t) == 1700000000 + t

\* the largest row number a call has returned from the append response
MaxAppendRet ==
    LET rs == { c.res : c \in { d \in done : d.via = "append" } }
    IN  IF rs = {} THEN 0 ELSE CHOOSE r \in rs : \A q \in rs : q <= r

Returned(p, res, via) ==
    /\ done' = done \cup { [proc |-> p, res |-> res, via |-> via, floor |-> sfloor[p]] }
    /\ spc' = [spc EXCEPT ![p] = "done"]

SeqInit ==
    /\ RestFrozen
    /\ AllocFrozen
    /\ UpsertFrozen
    /\ BindFrozen
    /\ reg = 1
    /\ spc = [p \in Procs |-> "idle"]
    /\ tries = [p \in Procs |-> 0]
    /\ sfloor = [p \in Procs |-> 0]
    /\ done = {}
    /\ now = 0

\* a session enters allocate_unique_seq
SeqStart(p) ==
    /\ spc[p] = "idle"
    /\ spc' = [spc EXCEPT ![p] = "append"]
    /\ sfloor' = [sfloor EXCEPT ![p] = MaxAppendRet]
    /\ UNCHANGED <<reg, tries, done, now, allocVars, upsertVars, bindVars, restVars>>

\* the append succeeds and the row number is read from the response
AppendOk(p) ==
    /\ spc[p] = "append"
    /\ reg' = append_row(reg).rows
    /\ Returned(p, row_of(append_row(reg).updatedRange), "append")
    /\ UNCHANGED <<tries, sfloor, now, allocVars, upsertVars, bindVars, restVars>>

\* the append fails with 429/5xx (app.py: _retry sleeps and tries again;
\* after the last attempt _retry returns None); the row may have been
\* written all the same
AppendRetryable(p) ==
    /\ spc[p] = "append"
    /\ tries[p] < retries
    /\ \E applied \in BOOLEAN : reg' = IF applied THEN append_row(reg).rows ELSE reg
    /\ tries' = [tries EXCEPT ![p] = tries[p] + 1]
    /\ spc' = [spc EXCEPT ![p] = IF tries[p] + 1 = retries THEN "fallback" ELSE "append"]
    /\ UNCHANGED <<sfloor, done, now, allocVars, upsertVars, bindVars, restVars>>

\* the append fails with another error (test1.py: with any error): the
\* exception leaves allocate_unique_seq
AppendRaises(p) ==
    /\ spc[p] = "append"
    /\ spc' = [spc EXCEPT ![p] = "raised"]
    /\ \E applied \in BOOLEAN : reg' = IF applied THEN append_row(reg).rows ELSE reg
    /\ UNCHANGED <<tries, sfloor, done, now, allocVars, upsertVars, bindVars, restVars>>

\* the append succeeds but its response names no row that the pattern
\* finds: the row is written and the call goes on to the row count
AppendUnparsed(p) ==
    /\ spc[p] = "append"
    /\ reg' = append_row(reg).rows
    /\ spc' = [spc EXCEPT ![p] = "fallback"]
    /\ UNCHANGED <<tries, sfloor, done, now, allocVars, upsertVars, bindVars, restVars>>

\* no row number in the response: max(len(get_all_values()), 2)
FallbackCount(p) ==
    /\ spc[p] = "fallback"
    /\ Returned(p, row_count(reg), "count")
    /\ UNCHANGED <<reg, tries, sfloor, now, allocVars, upsertVars, bindVars, restVars>>

\* ... and when that read fails too, the time stamp
FallbackTimestamp(p) ==
    /\ spc[p] = "fallback"
    /\ Returned(p, Timestamp(now), "timestamp")
    /\ UNCHANGED <<reg, tries, sfloor, now, allocVars, upsertVars, bindVars, restVars>>

Tick ==
    /\ now < MaxClock
    /\ now' = now + 1
    /\ UNCHANGED <<reg, spc, tries, sfloor, done, allocVars, upsertVars, bindVars, restVars>>

SeqNext ==
    \/ \E p \in Procs :
          \/ SeqStart(p)
          \/ AppendOk(p)
          \/ AppendRetryable(p)
          \/ AppendRaises(p)
          \/ FallbackCount(p)
          \/ FallbackTimestamp(p)
    \/ Tick

SpecSeq == SeqInit /\ [][SeqNext]_vars

\* C7: calls that take their row number from the append response return
\* pairwise distinct integers, and such a call that starts after another
\* one has returned gets a strictly larger integer.
C7_DistinctIncreasing ==
    /\ \A a \in done : \A b \in done :
          (a.via = "append" /\ b.via = "append" /\ a.proc # b.proc) => a.res # b.res
    /\ \A a \in done : a.via = "append" => a.res > a.floor

\* two calls returned from the append response, one of them started after
\* the other had returned, and one retried its append
C7_Witness ==
    \E a \in done : \E b \in done :
        /\ a.proc # b.proc
        /\ a.via = "append" /\ b.via = "append"
        /\ b.floor = a.res
        /\ tries[b.proc] > 0

\* the calls when every append is answered at its first attempt, with a
\* response that may name no row
SeqCountNext ==
    \/ \E p \in Procs :
          \/ SeqStart(p)
          \/ AppendOk(p)
          \/ AppendUnparsed(p)
          \/ FallbackCount(p)
          \/ FallbackTimestamp(p)
    \/ Tick

SpecSeqCount == SeqInit /\ [][SeqCountNext]_vars

\* C21: a call that takes the row-count fallback returns the number of
\* rows the registry has when it reads it, at least 2 and never more than
\* the rows there are; so when another writer appends between the call's
\* own append and its read, that writer's row number is returned twice.
C21_CountIsRowsRead ==
    \A a \in done : a.via = "count" => (a.res >= 2 /\ (a.res <= reg \/ a.res = 2))

\* the interleaving: a call whose append was answered without a row number
\* returns, from the row count, the number another call took from its
\* append response
C21_Witness ==
    \E a \in done : \E b \in done :
        /\ a.proc # b.proc
        /\ a.via = "count" /\ tries[a.proc] = 0
        /\ b.via = "append"
        /\ a.res = b.res

(***************************************************************************)
(* Pallet binding, the staged records and SUBMIT (app.py; test1.py is the  *)
(* same validation without _retry)                                         *)
(*                                                                         *)
(* One warehouse is examined: a waybill is listed under one warehouse      *)
(* only, so the rows and records of other warehouses never meet it.  A     *)
(* pallet number is the registry row it was made from.                     *)
(***************************************************************************)
\* the largest 箱数 a form row can ask for
MaxQty == MaxCap + 1

\* the rows of the form: (运单号, 箱数), the same waybill possibly twice,
\* none when every pasted row is ticked 删除
FormEntries == UNION { [1..k -> Waybills \X (1..MaxCap)] : k \in 0..2 }

\* grouped_entries: one (waybill, total) per waybill, in order of first
\* occurrence
RECURSIVE grouped_entries(_, _)
grouped_entries(entries, acc) ==
    IF entries = <<>> THEN acc
    ELSE LET wb  == Head(entries)[1]
             qty == Head(entries)[2]
         IN  IF \E i \in 1..Len(acc) : acc[i].wb = wb
             THEN grouped_entries(Tail(entries),
                     [i \in 1..Len(acc) |->
                         IF acc[i].wb = wb
                         THEN [wb |-> wb, qty |-> acc[i].qty + qty]
                         ELSE acc[i]])
             ELSE grouped_entries(Tail(entries), Append(acc, [wb |-> wb, qty |-> qty]))

\* the 箱数 of the records of one waybill, summed
RECURSIVE SumQty(_, _)
SumQty(records, wb) ==
    IF records = <<>> THEN 0
    ELSE (IF Head(records).wb = wb THEN Head(records).qty ELSE 0)
         + SumQty(Tail(records), wb)

\* allocated_local of a session
allocated_local(s, wb) == SumQty(staged[s], wb)

\* load_uploaded_allocations(warehouse).get(wb, 0).  read = "lost": every
\* attempt of _retry(sheet.get_all_values) failed with 429/5xx, _retry
\* returned None and the function answered {}
load_uploaded_allocations(read, wb) == IF read = "lost" THEN 0 ELSE uploaded[wb]

\* allocated_map.get(wb, 0)
allocated_map(s, read, wb) ==
    load_uploaded_allocations(read, wb) + allocated_local(s, wb)

\* allowed is None or pd.isna(allowed)
allowed_missing(wb) == allowed[wb] = -1

\* total_after > int(allowed)
exceeds(total_after, cap) == total_after > cap

ViolationOf(s, read, e) ==
    [wb |-> e.wb, allowed |-> allowed[e.wb], already |-> allocated_map(s, read, e.wb),
     add_qty |-> e.qty,
     over |-> allocated_map(s, read, e.wb) + e.qty - allowed[e.wb]]

\* the loop over grouped_entries: one entry per unit over its capacity
RECURSIVE violations(_, _, _)
violations(s, read, grouped) ==
    IF grouped = <<>> THEN <<>>
    ELSE IF allowed_missing(Head(grouped).wb) THEN violations(s, read, Tail(grouped))
    ELSE IF exceeds(allocated_map(s, read, Head(grouped).wb) + Head(grouped).qty,
                    allowed[Head(grouped).wb])
         THEN << ViolationOf(s, read, Head(grouped)) >> \o violations(s, read, Tail(grouped))
         ELSE violations(s, read, Tail(grouped))

missing_info(grouped) == SelectSeq(grouped, LAMBDA e : allowed_missing(e.wb))

\* the records a binding stages: one per waybill of grouped_entries
NewRecords(pallet_id, grouped) ==
    [i \in 1..Len(grouped) |->
        [pallet |-> pallet_id, wb |-> grouped[i].wb, qty |-> grouped[i].qty]]

\* list.remove(x): without the first occurrence of x
RemoveFirst(l, x) ==
    LET i == CHOOSE k \in 1..Len(l) : l[k] = x /\ \A j \in 1..(k - 1) : l[j] # x
    IN  SubSeq(l, 1, i - 1) \o SubSeq(l, i + 1, Len(l))

BindInit ==
    /\ RestFrozen
    /\ AllocFrozen
    /\ UpsertFrozen
    /\ reg = 1
    /\ spc = [p \in Procs |-> "idle"]
    /\ tries = [p \in Procs |-> 0]
    /\ sfloor = [p \in Procs |-> 0]
    /\ done = {}
    /\ now = 0
    /\ allowed \in [Waybills -> {-1} \cup (1..MaxCap)]
    /\ uploaded = [w \in Waybills |-> 0]
    /\ open = [s \in Sessions |-> <<>>]
    /\ staged = [s \in Sessions |-> <<>>]
    /\ submits = 0
    /\ lastBind = NoBind

bindFrame == <<spc, tries, sfloor, done, now, allocVars, upsertVars, restVars>>

\* what build_waybill_delta and the rounds leave alone
trackFrame == <<allocVars, upsertVars, seqVars, bindVars, extractVars, retryVars, deltaVars, shipVars, pidVars, transferVars, createVars>>

\* what upsert_transfer_rows leaves alone
transferFrame == <<allocVars, upsertVars, seqVars, bindVars, extractVars, retryVars, deltaVars, shipVars, pidVars, trackVars, createVars>>

\* what the creating buttons leave alone
createFrame == <<allocVars, upsertVars, seqVars, bindVars, extractVars, retryVars, deltaVars, shipVars, pidVars, trackVars, transferVars>>

\* the button 新建托盘: a pallet number from a new registry row
NewPallet(s) ==
    /\ lastBind = NoBind
    /\ reg < 1 + MaxPallets
    /\ reg' = append_row(reg).rows
    /\ open' = [open EXCEPT ![s] = Append(open[s], row_of(append_row(reg).updatedRange))]
    /\ UNCHANGED lastBind
    /\ UNCHANGED <<allowed, uploaded, staged, submits, bindFrame>>

\* the button 批量新建托盘 with bulk_n = n
BulkNewPallets(s, n) ==
    /\ lastBind = NoBind
    /\ reg + n <= 1 + MaxPallets
    /\ reg' = reg + n
    /\ open' = [open EXCEPT ![s] = open[s] \o [k \in 1..n |-> reg + k]]
    /\ UNCHANGED lastBind
    /\ UNCHANGED <<allowed, uploaded, staged, submits, bindFrame>>

\* the button 确认绑定托盘 of the i-th open pallet with the form rows
\* entries; read is the outcome of reading the pallet detail sheet
ConfirmBind(s, i, entries, read) ==
    /\ lastBind = NoBind
    /\ i \in 1..Len(open[s])
    /\ LET pallet_id == open[s][i]
           grouped   == grouped_entries(entries, <<>>)
           viol      == violations(s, read, grouped)
       IN  /\ IF viol # <<>>
              THEN UNCHANGED <<staged, open>>
              ELSE /\ staged' = [staged EXCEPT ![s] = staged[s] \o NewRecords(pallet_id, grouped)]
                   /\ open' = [open EXCEPT ![s] = RemoveFirst(open[s], pallet_id)]
           /\ lastBind' = [sess |-> s, pallet |-> pallet_id, entries |-> entries, read |-> read,
                           before |-> staged[s], openBefore |-> open[s],
                           violations |-> viol, missing_info |-> missing_info(grouped)]
    /\ UNCHANGED <<allowed, uploaded, submits, reg, bindFrame>>

\* the data editor of the staged records: 箱数 of record i typed over; the
\* edit is saved as it is
EditRecord(s, i, q) ==
    /\ lastBind = NoBind
    /\ i \in 1..Len(staged[s])
    /\ staged[s][i].qty # q
    /\ staged' = [staged EXCEPT ![s][i].qty = q]
    /\ UNCHANGED lastBind
    /\ UNCHANGED <<allowed, uploaded, open, submits, reg, bindFrame>>

\* the button 删除所选 with the records of to_delete_idx ticked
DeleteSelected(s, to_delete_idx) ==
    /\ lastBind = NoBind
    /\ to_delete_idx # {}
    /\ to_delete_idx \subseteq 1..Len(staged[s])
    /\ staged' = [staged EXCEPT ![s] =
                     LET keep == { i \in 1..Len(staged[s]) : i \notin to_delete_idx }
                         Nth(k) == CHOOSE i \in keep :
                                      Cardinality({ j \in keep : j < i }) = k - 1
                     IN  [k \in 1..Cardinality(keep) |-> staged[s][Nth(k)]]]
    /\ UNCHANGED lastBind
    /\ UNCHANGED <<allowed, uploaded, open, submits, reg, bindFrame>>

\* the button SUBMIT.  outcome: "ok" the rows are appended; "lost" every
\* attempt of _retry failed with 429/5xx, _retry returned None and the
\* handler went on; "raised" another error left the handler
Submit(s, clear_after, outcome) ==
    /\ lastBind = NoBind
    /\ staged[s] # <<>>
    /\ submits < MaxSubmits
    /\ submits' = submits + 1
    /\ uploaded' = IF outcome = "ok"
                   THEN [w \in Waybills |-> uploaded[w] + SumQty(staged[s], w)]
                   ELSE uploaded
    /\ staged' = IF clear_after /\ outcome # "raised"
                 THEN [staged EXCEPT ![s] = <<>>]
                 ELSE staged
    /\ UNCHANGED lastBind
    /\ UNCHANGED <<allowed, open, reg, bindFrame>>

\* the script run that rendered the outcome of a binding ends; the next
\* interaction starts from the session state alone
Rerun ==
    /\ lastBind # NoBind
    /\ lastBind' = NoBind
    /\ UNCHANGED <<allowed, uploaded, open, staged, submits, reg, bindFrame>>

BindNext ==
    \/ Rerun
    \/ \E s \in Sessions :
        \/ NewPallet(s)
        \/ \E n \in 1..MaxPallets : BulkNewPallets(s, n)
        \/ \E i \in 1..MaxPallets : \E entries \in FormEntries :
              \E read \in {"ok", "lost"} : ConfirmBind(s, i, entries, read)
        \/ \E i \in 1..(2 * MaxPallets) : \E q \in 1..MaxQty : EditRecord(s, i, q)
        \/ \E idx \in SUBSET (1..(2 * MaxPallets)) : DeleteSelected(s, idx)
        \/ \E clear_after \in BOOLEAN : \E outcome \in {"ok", "lost", "raised"} :
              Submit(s, clear_after, outcome)

SpecBind == BindInit /\ [][BindNext]_vars

\* ---- one session, with the sheet as earlier sessions left it ----
Solo == CHOOSE s \in Sessions : \A t \in Sessions : s <= t

BindSoloInit ==
    /\ RestFrozen
    /\ AllocFrozen
    /\ UpsertFrozen
    /\ reg = 1
    /\ spc = [p \in Procs |-> "idle"]
    /\ tries = [p \in Procs |-> 0]
    /\ sfloor = [p \in Procs |-> 0]
    /\ done = {}
    /\ now = 0
    /\ allowed \in [Waybills -> {-1, MaxCap}]
    /\ \E w \in Waybills : ~allowed_missing(w)
    /\ \E u \in 0..1 : uploaded = [w \in Waybills |-> u]
    /\ open = [s \in Sessions |-> <<>>]
    /\ staged = [s \in Sessions |-> <<>>]
    /\ submits = 0
    /\ lastBind = NoBind

BindSoloNext ==
    \/ Rerun
    \/ NewPallet(Solo)
    \/ \E n \in 1..MaxPallets : BulkNewPallets(Solo, n)
    \/ \E i \in 1..MaxPallets : \E entries \in FormEntries :
          \E read \in {"ok", "lost"} : ConfirmBind(Solo, i, entries, read)
    \/ \E i \in 1..(2 * MaxPallets) : \E q \in {1, MaxQty} : EditRecord(Solo, i, q)
    \/ \E i \in 1..(2 * MaxPallets) : DeleteSelected(Solo, {i})

SpecBindSolo == BindSoloInit /\ [][BindSoloNext]_vars

\* ---- what the claims speak of ----
\* the boxes of a waybill staged in any session
RECURSIVE StagedAll(_, _)
StagedAll(S, wb) ==
    IF S = {} THEN 0
    ELSE LET s == CHOOSE x \in S : TRUE
         IN  SumQty(staged[s], wb) + StagedAll(S \ {s}, wb)

\* the boxes the form rows of the last binding ask for a waybill
RECURSIVE Requested(_, _)
Requested(entries, wb) ==
    IF entries = <<>> THEN 0
    ELSE (IF Head(entries)[1] = wb THEN Head(entries)[2] ELSE 0)
         + Requested(Tail(entries), wb)

\* uploaded plus staged in the session, as the last binding found them
AlreadyBefore(wb) == uploaded[wb] + SumQty(lastBind.before, wb)

OverCapacity(wb) ==
    /\ Requested(lastBind.entries, wb) > 0
    /\ allowed[wb] # -1
    /\ AlreadyBefore(wb) + Requested(lastBind.entries, wb) > allowed[wb]

Flagged(wb) == \E k \in 1..Len(lastBind.violations) : lastBind.violations[k].wb = wb

\* C8: for every waybill with a known capacity, the boxes uploaded plus the
\* boxes staged in any session never exceed the capacity.
C8_Capacity ==
    \A wb \in Waybills :
        allowed[wb] # -1 => uploaded[wb] + StagedAll(Sessions, wb) <= allowed[wb]

MaxLex == 5

\* two waybill numbers and a token that starts with IP
Words == {"AB123456", "CD123456", "IP123456"}

HalfL == "("

HalfR == ")"

FullL == "FL"

FullR == "FR"

\* the class [,，;；、|/] of the segment split, one member of it
SegSep == ","

Blank == " "

Lexemes == Words \cup {HalfL, HalfR, FullL, FullR, SegSep, Blank}

Texts == SeqsUpTo(Lexemes, MaxLex)

\* s.strip()
RECURSIVE lstrip(_)
lstrip(s) == IF s # <<>> /\ Head(s) = Blank THEN lstrip(Tail(s)) ELSE s

RECURSIVE rstrip(_)
rstrip(s) ==
    IF s # <<>> /\ s[Len(s)] = Blank THEN rstrip(SubSeq(s, 1, Len(s) - 1)) ELSE s

strip(s) == rstrip(lstrip(s))

\* re.split on the lexemes of seps: the pieces between them, empty ones
\* included
RECURSIVE SplitOn(_, _, _)
SplitOn(s, seps, cur) ==
    IF s = <<>> THEN << cur >>
    ELSE IF Head(s) \in seps THEN << cur >> \o SplitOn(Tail(s), seps, <<>>)
    ELSE SplitOn(Tail(s), seps, Append(cur, Head(s)))

\* re.split(r"[,，;；、|/]+", str(mixed))
segs_of(mixed) == SplitOn(mixed, {SegSep}, <<>>)

\* _split_tokens: _RE_SPLIT.split(s) without the empty pieces
split_tokens(s) == SelectSeq(SplitOn(s, {SegSep, Blank}, <<>>), LAMBDA t : t # <<>>)

\* index of the first lexeme of s after position i that is in cs, 0 if none
FirstIn(s, i, cs) ==
    IF \E j \in (i + 1)..Len(s) : s[j] \in cs
    THEN CHOOSE j \in (i + 1)..Len(s) :
            s[j] \in cs /\ \A k \in (i + 1)..(j - 1) : s[k] \notin cs
    ELSE 0

\* re.sub(r"\([^()]*\)", "", s) with the brackets l and r: every pair with
\* no bracket of that width in between goes, with what it holds
RECURSIVE sub_inner(_, _, _)
sub_inner(s, l, r) ==
    IF s = <<>> THEN <<>>
    ELSE LET j == FirstIn(s, 1, {l, r})
         IN  IF Head(s) = l /\ j # 0 /\ s[j] = r
             THEN sub_inner(SubSeq(s, j + 1, Len(s)), l, r)
             ELSE << Head(s) >> \o sub_inner(Tail(s), l, r)

\* _remove_parens_iter: half-width, then full-width, until nothing changes
RECURSIVE remove_parens_iter(_)
remove_parens_iter(s) ==
    LET out == sub_inner(sub_inner(s, HalfL, HalfR), FullL, FullR)
    IN  IF out = s THEN s ELSE remove_parens_iter(out)

\* _RE_PARENS.sub("", s): from an opening bracket of either width to the
\* nearest closing bracket of either width
RECURSIVE RE_PARENS_sub(_)
RE_PARENS_sub(s) ==
    IF s = <<>> THEN <<>>
    ELSE LET j == FirstIn(s, 1, {HalfR, FullR})
         IN  IF Head(s) \in {HalfL, FullL} /\ j # 0
             THEN RE_PARENS_sub(SubSeq(s, j + 1, Len(s)))
             ELSE << Head(s) >> \o RE_PARENS_sub(Tail(s))

\* _norm_waybill_str on a token: no token of these texts ends in ".0" or
\* reads as a number, so the token is kept or, when empty, stays ""
norm_token(p) == strip(p)

\* token.upper().startswith("IP")
starts_ip(token) == token # <<>> /\ Head(token) = "IP123456"

\* a letter, a digit and at least 8 characters: every word has all three,
\* a bracket has none
has_alnum8(token) == \E i \in 1..Len(token) : token[i] \in Words

is_waybill(token) == token # <<>> /\ ~starts_ip(token) /\ has_alnum8(token)

\* the loop over parts: every token that passes is appended
valid_tokens(parts) == SelectSeq([i \in 1..Len(parts) |-> norm_token(parts[i])], is_waybill)

\* the loop over segs of _extract_pure_waybills_and_po, before the
\* duplicates are dropped
RECURSIVE seg_loop(_)
seg_loop(segs) ==
    IF segs = <<>> THEN <<>>
    ELSE LET seg == strip(Head(segs))
         IN  (IF seg = <<>> THEN <<>>
              ELSE valid_tokens(split_tokens(remove_parens_iter(seg))))
             \o seg_loop(Tail(segs))

\* wb_list of _extract_pure_waybills_and_po(mixed)
extract_pure_waybills_and_po(mixed) ==
    IF strip(mixed) = <<>> THEN <<>> ELSE Seen(seg_loop(segs_of(mixed)), <<>>)

\* _extract_pure_waybills(mixed)
extract_pure_waybills(mixed) ==
    IF strip(mixed) = <<>> THEN <<>>
    ELSE valid_tokens(split_tokens(strip(RE_PARENS_sub(strip(mixed)))))

ExtractInit ==
    /\ AllocFrozen
    /\ UpsertFrozen
    /\ SeqFrozen
    /\ BindFrozen
    /\ CreateFrozen
    /\ TransferFrozen
    /\ TrackFrozen
    /\ RetryFrozen
    /\ DeltaFrozen
    /\ ShipFrozen
    /\ PidFrozen
    /\ cell \in Texts
    /\ xfn = "none"
    /\ wb_list = <<>>

\* _extract_pure_waybills_and_po(cell)
ExtractAndPo ==
    /\ xfn = "none"
    /\ xfn' = "and_po"
    /\ wb_list' = extract_pure_waybills_and_po(cell)
    /\ UNCHANGED <<cell, extractFrame>>

\* _extract_pure_waybills(cell)
ExtractPure ==
    /\ xfn = "none"
    /\ xfn' = "pure"
    /\ wb_list' = extract_pure_waybills(cell)
    /\ UNCHANGED <<cell, extractFrame>>

ExtractNext == ExtractAndPo \/ ExtractPure

SpecExtract == ExtractInit /\ [][ExtractNext]_vars

\* ---- what the claims speak of ----
\* the brackets l, r of s are balanced: as many of each, never more closed
\* than opened
RECURSIVE Depth(_, _, _)
Depth(s, l, r) ==
    IF s = <<>> THEN 0
    ELSE Depth(SubSeq(s, 1, Len(s) - 1), l, r)
         + (IF s[Len(s)] = l THEN 1 ELSE IF s[Len(s)] = r THEN -1 ELSE 0)

Balanced(s, l, r) ==
    /\ Depth(s, l, r) = 0
    /\ \A n \in 1..Len(s) : Depth(SubSeq(s, 1, n), l, r) >= 0

\* position k of s lies inside a balanced pair of the brackets l, r
InsidePair(s, k, l, r) ==
    \E i \in 1..(k - 1) : \E j \in (k + 1)..Len(s) :
        /\ s[i] = l
        /\ s[j] = r
        /\ Balanced(SubSeq(s, i + 1, j - 1), l, r)

Inside(s, k) == InsidePair(s, k, HalfL, HalfR) \/ InsidePair(s, k, FullL, FullR)

\* the word w stands in the text, and only inside brackets
OnlyInside(s, w) ==
    /\ \E k \in 1..Len(s) : s[k] = w
    /\ \A k \in 1..Len(s) : s[k] = w => Inside(s, k)

Returned_wb(token) == \E n \in 1..Len(wb_list) : wb_list[n] = token

\* the first token of each segment that passes, duplicates dropped
RECURSIVE first_per_seg(_)
first_per_seg(segs) ==
    IF segs = <<>> THEN <<>>
    ELSE LET v == valid_tokens(split_tokens(remove_parens_iter(strip(Head(segs)))))
         IN  (IF v = <<>> THEN <<>> ELSE << v[1] >>) \o first_per_seg(Tail(segs))

\* C11: a word that stands in the cell only inside balanced brackets (of
\* either width, nested or not) is not returned as a waybill number,
\* whatever separators the bracketed text holds.
C11_NoBracketToken ==
    xfn = "and_po" =>
        \A w \in Words : OnlyInside(cell, w) => ~Returned_wb(<< w >>)

\* C12: the list returned holds, for each segment, the first token of the
\* segment that passes validation and no other token of it.
C12_FirstPerSegment ==
    xfn = "and_po" => wb_list = Seen(first_per_seg(segs_of(cell)), <<>>)

(***************************************************************************)
(* The retry helpers: _retry (app.py), _safe_get_all_values and            *)
(* _with_backoff (app2.py)                                                 *)
(*                                                                         *)
(* One run of a helper around a call that may fail with an HTTP status.    *)
(* The text of a quota error names its status 429; the texts of the other  *)
(* errors name neither 429 nor a quota.                                    *)
(***************************************************************************)
Helpers == {"_retry", "_safe_get_all_values", "_with_backoff"}

\* the statuses a failing call may carry
Statuses == {429, 500, 503, 403, 404}

\* the statuses C15 and C16 call retryable
RetryableStatuses == {429, 500, 502, 503, 504}

\* backoffs of _safe_get_all_values, in tenths of a second
backoffs == <<5, 10, 20, 40, 80>>

\* delays of _with_backoff, in tenths of a second
delays == <<3, 6, 12, 24, 48, 60>>

\* the number of passes of the loop of a helper
Attempts(h) ==
    CASE h = "_retry"               -> retries
      [] h = "_safe_get_all_values" -> Len(<<0>> \o backoffs)
      [] h = "_with_backoff"        -> Len(<<0>> \o delays)

\* ("Quota exceeded" in msg) or ... or ("429" in msg)
quota_text(status) == status = 429

\* _retry: code = e.response.status_code if e.response else None; None is 0
code_of(truthy, status) == IF truthy THEN status ELSE 0

\* a faulty test: every failure is taken for a passing one
goes_on_always(h, truthy, status, i) == TRUE

\* the helper h goes on to its next pass after the failure of pass i
\* (counted from 0) with this status
goes_on(h, truthy, status, i) ==
    CASE h = "_retry"               -> code_of(truthy, status) \in RetryableStatuses
      [] h = "_safe_get_all_values" -> quota_text(status) /\ i < Len(backoffs)
      [] h = "_with_backoff"        -> quota_text(status)

\* the sleeps of pass i: _retry sleeps after a failure it goes on from, the
\* other two sleep before every pass but the first
sleeps_before(h, i) == IF h # "_retry" /\ i > 0 THEN 1 ELSE 0

sleeps_after(h, truthy, status, i) ==
    IF h = "_retry" /\ goes_on(h, truthy, status, i) THEN 1 ELSE 0

\* how the helper ends when its loop runs out: _retry falls off the end
\* and returns None, _with_backoff raises last_err
at_loop_end(h) == IF h = "_retry" THEN "none" ELSE "raised"

RetryInit ==
    /\ AllocFrozen
    /\ UpsertFrozen
    /\ SeqFrozen
    /\ BindFrozen
    /\ CreateFrozen
    /\ TransferFrozen
    /\ TrackFrozen
    /\ ExtractFrozen
    /\ DeltaFrozen
    /\ ShipFrozen
    /\ PidFrozen
    /\ rh \in Helpers
    /\ rtruthy \in BOOLEAN
    /\ rcalls = 0
    /\ rsleeps = 0
    /\ rfaults = <<>>
    /\ rout = "running"

\* the wrapped call answers
CallReturns ==
    /\ rout = "running"
    /\ rcalls' = rcalls + 1
    /\ rsleeps' = rsleeps + sleeps_before(rh, rcalls)
    /\ rout' = "value"
    /\ UNCHANGED <<rh, rtruthy, rfaults, retryFrame>>

\* the wrapped call fails with an APIError of this status
CallFails(status) ==
    /\ rout = "running"
    /\ rcalls' = rcalls + 1
    /\ rfaults' = Append(rfaults, status)
    /\ rsleeps' = rsleeps + sleeps_before(rh, rcalls)
                          + sleeps_after(rh, rtruthy, status, rcalls)
    /\ rout' = IF ~goes_on(rh, rtruthy, status, rcalls) THEN "raised"
               ELSE IF rcalls + 1 = Attempts(rh) THEN at_loop_end(rh)
               ELSE "running"
    /\ UNCHANGED <<rh, rtruthy, retryFrame>>

RetryNext == CallReturns \/ \E status \in Statuses : CallFails(status)

SpecRetry == RetryInit /\ [][RetryNext]_vars

\* every call of the run so far failed with a status of RetryableStatuses
AllRetryable ==
    /\ rfaults # <<>>
    /\ Len(rfaults) = rcalls
    /\ \A k \in 1..Len(rfaults) : rfaults[k] \in RetryableStatuses

C16_NonRetryableAtOnce ==
    \A k \in 1..Len(rfaults) :
        rfaults[k] \notin RetryableStatuses =>
            /\ k = rcalls
            /\ rout = "raised"
            /\ rsleeps = k - 1

\* a run that retried and then met a status that is not retryable
C16_Witness ==
    /\ rcalls > 1
    /\ rfaults[Len(rfaults)] \notin RetryableStatuses
    /\ rout = "raised"

(***************************************************************************)
(* build_waybill_delta: the column 发走费用 (app2.py)                      *)
(*                                                                         *)
(* Costs are in cents and kept exactly as fractions [n, d]; a waybill is   *)
(* in wb2_cost once a record with a cost named it.  An exact tie of the    *)
(* final rounding is decided by the representation error of the floats,    *)
(* so there the result is either neighbour.                                *)
(***************************************************************************)
MaxTrack == 2

DeltaUnits == {"W1", "W2", "W3"}

\* 分摊费用 of a tracking record, in cents
TrackCosts == {1, 100}

\* a record of the tracking sheet: its waybills and its cost, if it has one
TrackRows ==
    { [wbs |-> ws, priced |-> p, cost |-> c] :
        ws \in (SUBSET DeltaUnits) \ {{}}, p \in BOOLEAN, c \in TrackCosts \cup {0} }

\* _to_num_safe(r.get("分摊费用")): a record without a cost carries none
WellFormedRow(r) == (r.priced /\ r.cost \in TrackCosts) \/ (~r.priced /\ r.cost = 0)

\* w if (w and w > 0) else None, None being 0
weight_of(wm, wb) == IF wm[wb] > 0 THEN wm[wb] ELSE 0

RECURSIVE SumOver(_, _)
SumOver(f, S) ==
    IF S = {} THEN 0
    ELSE LET x == CHOOSE y \in S : TRUE IN f[x] + SumOver(f, S \ {x})

\* total_w of a record
total_w(wm, ws) == SumOver([wb \in DeltaUnits |-> weight_of(wm, wb)], ws)

\* shares by weight alone, without the equal split
shares_by_weight(wm, ws) ==
    [wb \in ws |-> [n |-> weight_of(wm, wb), d |-> total_w(wm, ws)]]

\* shares, as fractions: by weight, or equal when no waybill has a weight
shares(wm, ws) ==
    IF total_w(wm, ws) > 0
    THEN [wb \in ws |-> [n |-> weight_of(wm, wb), d |-> total_w(wm, ws)]]
    ELSE [wb \in ws |-> [n |-> 1, d |-> Cardinality(ws)]]

NoCostYet == [in |-> FALSE, n |-> 0, d |-> 1]

\* wb2_cost[wb] = wb2_cost.get(wb, 0.0) + pallet_cost * s
add_cost(old, cost, s) ==
    [in |-> TRUE, n |-> old.n * s.d + cost * s.n * old.d, d |-> old.d * s.d]

\* one pass of the loop over the tracking records
track_row(w2c, wm, r) ==
    IF ~r.priced THEN w2c
    ELSE [wb \in DeltaUnits |->
            IF wb \in r.wbs THEN add_cost(w2c[wb], r.cost, shares(wm, r.wbs)[wb])
            ELSE w2c[wb]]

\* round(wb2_cost.get(wb, 0.0), 2) if wb in wb2_cost else pd.NA; NA is 0
\* when the column is summed
out_cost(w2c, wb, tieUp) ==
    IF w2c[wb].in THEN RoundDiv(w2c[wb].n, w2c[wb].d, tieUp) ELSE 0

DeltaInit ==
    /\ AllocFrozen
    /\ UpsertFrozen
    /\ SeqFrozen
    /\ BindFrozen
    /\ CreateFrozen
    /\ TransferFrozen
    /\ TrackFrozen
    /\ ExtractFrozen
    /\ RetryFrozen
    /\ ShipFrozen
    /\ PidFrozen
    /\ track \in SeqsUpTo({ r \in TrackRows : WellFormedRow(r) }, MaxTrack)
    /\ weight_map \in [DeltaUnits -> 0..MaxWeight]
    /\ wb2_cost = [wb \in DeltaUnits |-> NoCostYet]
    /\ row_i = 1
    /\ fee = [wb \in DeltaUnits |-> 0]
    /\ dph = "loop"

\* for _, r in track.iterrows(): the pass for record row_i
TrackRow ==
    /\ dph = "loop"
    /\ row_i <= Len(track)
    /\ wb2_cost' = track_row(wb2_cost, weight_map, track[row_i])
    /\ row_i' = row_i + 1
    /\ UNCHANGED <<track, weight_map, fee, dph, deltaFrame>>

\* out["发走费用"] = ...; pd.to_numeric(...).round(2)
BuildOut ==
    /\ dph = "loop"
    /\ row_i > Len(track)
    /\ \E up \in [DeltaUnits -> BOOLEAN] :
           fee' = [wb \in DeltaUnits |-> out_cost(wb2_cost, wb, up[wb])]
    /\ dph' = "done"
    /\ UNCHANGED <<track, weight_map, wb2_cost, row_i, deltaFrame>>

DeltaNext == TrackRow \/ BuildOut

SpecDelta == DeltaInit /\ [][DeltaNext]_vars

\* the costs of the records that have one
RECURSIVE CostOf(_)
CostOf(t) ==
    IF t = <<>> THEN 0
    ELSE (IF Head(t).priced THEN Head(t).cost ELSE 0) + CostOf(Tail(t))

\* C17: the amounts of the column 发走费用, rounded to cents, sum to the
\* costs of the tracking records they were attributed from; with a single
\* record the per-unit amounts of that record sum to its cost.
C17_SharesSumToCost ==
    dph = "done" => SumOver(fee, DeltaUnits) = CostOf(track)

(***************************************************************************)
(* Shipping pallets: lock, upload to the sheet 发货追踪, refresh, unlock   *)
(* (app2.py)                                                               *)
(*                                                                         *)
(* The page hides the pallets that load_shipped_pallet_ids reports.  That  *)
(* function is cached (its _bust argument is not part of the cache key),   *)
(* so a session works with the set it loaded last until it loads again.    *)
(***************************************************************************)
MaxShipRows == 3

PalletIds == {"P1", "P2"}

\* the header of the pallet column of 发货追踪: 托盘号, an equivalent the
\* upload accepts (PalletID, ...), or no such column
PidHeaders == {"pid", "PalletID", "none"}

\* load_shipped_pallet_ids: only a column named 托盘号 is read
load_shipped_pallet_ids(rows, hdr) ==
    IF hdr = "pid" THEN { rows[i] : i \in 1..Len(rows) } ELSE {}

\* pid_col_to_use is found
has_pid_col(hdr) == hdr # "none"

\* upload_df rows, one per locked pallet
RowsOf(S) ==
    (IF "P1" \in S THEN << "P1" >> ELSE <<>>) \o (IF "P2" \in S THEN << "P2" >> ELSE <<>>)

ShipInit ==
    /\ AllocFrozen
    /\ UpsertFrozen
    /\ SeqFrozen
    /\ BindFrozen
    /\ CreateFrozen
    /\ TransferFrozen
    /\ TrackFrozen
    /\ ExtractFrozen
    /\ RetryFrozen
    /\ DeltaFrozen
    /\ PidFrozen
    /\ track_rows = <<>>
    /\ pid_hdr \in PidHeaders
    /\ sel_locked = [s \in Sessions |-> FALSE]
    /\ locked_df = [s \in Sessions |-> {}]
    /\ shipped_seen = [s \in Sessions |-> {}]

\* a rerun of the page after the cached answer has expired
PageRerun(s) ==
    /\ shipped_seen' = [shipped_seen EXCEPT ![s] = load_shipped_pallet_ids(track_rows, pid_hdr)]
    /\ UNCHANGED <<track_rows, pid_hdr, sel_locked, locked_df, shipFrame>>

\* 刷新数据: the lock is dropped and the page runs again, with the cached
\* answer or a new one
RefreshData(s) ==
    /\ locked_df' = [locked_df EXCEPT ![s] = {}]
    /\ sel_locked' = [sel_locked EXCEPT ![s] = FALSE]
    /\ \E seen \in {shipped_seen[s], load_shipped_pallet_ids(track_rows, pid_hdr)} :
           shipped_seen' = [shipped_seen EXCEPT ![s] = seen]
    /\ UNCHANGED <<track_rows, pid_hdr, shipFrame>>

\* 锁定选择并进入计算
Lock(s, sel) ==
    /\ ~sel_locked[s]
    /\ sel # {}
    /\ sel \subseteq PalletIds \ shipped_seen[s]
    /\ locked_df' = [locked_df EXCEPT ![s] = sel]
    /\ sel_locked' = [sel_locked EXCEPT ![s] = TRUE]
    /\ UNCHANGED <<track_rows, pid_hdr, shipped_seen, shipFrame>>

\* 重新选择
Unlock(s) ==
    /\ sel_locked[s]
    /\ PalletIds \ shipped_seen[s] # {}
    /\ locked_df' = [locked_df EXCEPT ![s] = {}]
    /\ sel_locked' = [sel_locked EXCEPT ![s] = FALSE]
    /\ UNCHANGED <<track_rows, pid_hdr, shipped_seen, shipFrame>>

\* 上传到『发货追踪』
Upload(s) ==
    /\ sel_locked[s]
    /\ PalletIds \ shipped_seen[s] # {}
    /\ has_pid_col(pid_hdr)
    /\ Len(track_rows) + Cardinality(locked_df[s]) <= MaxShipRows
    /\ track_rows' = track_rows \o RowsOf(locked_df[s])
    /\ UNCHANGED <<pid_hdr, sel_locked, locked_df, shipped_seen, shipFrame>>

ShipNext ==
    \E s \in Sessions :
        \/ PageRerun(s)
        \/ RefreshData(s)
        \/ \E sel \in SUBSET PalletIds : Lock(s, sel)
        \/ Unlock(s)
        \/ Upload(s)

SpecShip == ShipInit /\ [][ShipNext]_vars

\* the number of tracking rows of pallet p
RowCount(p) == Cardinality({ i \in 1..Len(track_rows) : track_rows[i] = p })

\* C18: after any sequence of lock, upload, refresh and unlock actions
\* every pallet ID occurs in at most one row of the tracking sheet.
C18_OneRowPerPallet == \A p \in PalletIds : RowCount(p) <= 1

(***************************************************************************)
(* Pallet binding: the pallets a waybill is staged on (app.py)             *)
(***************************************************************************)
\* the pallets the staged records of session s bind waybill wb to; they are
\* not uploaded yet, so none of them is shipped
PalletsOf(s, wb) ==
    { staged[s][i].pallet : i \in { k \in 1..Len(staged[s]) : staged[s][k].wb = wb } }

\* C19: after any sequence of confirm-binding actions in a warehouse, each
\* waybill is bound to at most one pallet that is not shipped yet.
C19_OnePalletPerWaybill ==
    \A wb \in Waybills : Cardinality(PalletsOf(Solo, wb)) <= 1

(***************************************************************************)
(* generate_pallet_id (app.py)                                             *)
(*                                                                         *)
(* Strings are sequences of characters.  A sequence number is a sequence   *)
(* of limbs of base 10000, most significant first, so that a timestamp     *)
(* times 10000 is the limbs of the seconds followed by one more limb.      *)
(***************************************************************************)
MaxScopeLen == 4

ALPHABET ==
    << "0", "1", "2", "3", "4", "5", "6", "7", "8", "9", "A", "B",
       "C", "D", "E", "F", "G", "H", "I", "J", "K", "L", "M", "N",
       "O", "P", "Q", "R", "S", "T", "U", "V", "W", "X", "Y", "Z" >>

\* the characters of a warehouse argument
ScopeChars == {"a", "B"}

\* the warehouse arguments; <<>> is None as well as the empty string
Scopes == SeqsUpTo0(ScopeChars, MaxScopeLen)

\* str.upper()
upper(s) == [i \in 1..Len(s) |-> IF s[i] = "a" THEN "A" ELSE s[i]]

UNK == << "U", "N", "K" >>

\* (str(warehouse) if warehouse else "UNK").upper()[:3] or "UNK"
scope_of(warehouse) ==
    LET u == upper(IF warehouse # <<>> THEN warehouse ELSE UNK)
        c == SubSeq(u, 1, IF Len(u) < 3 THEN Len(u) ELSE 3)
    IN  IF c # <<>> THEN c ELSE UNK

IsZero(n) == \A i \in 1..Len(n) : n[i] = 0

\* divmod(n, 36) on limbs
RECURSIVE LongDiv(_, _, _)
LongDiv(ls, carry, q) ==
    IF ls = <<>> THEN [q |-> q, r |-> carry]
    ELSE LET cur == carry * 10000 + Head(ls)
         IN  LongDiv(Tail(ls), cur % 36, Append(q, cur \div 36))

\* the while loop of _to_base36, the digits already reversed
RECURSIVE digits36(_, _)
digits36(n, acc) ==
    IF IsZero(n) THEN acc
    ELSE LET dm == LongDiv(n, 0, <<>>)
         IN  digits36(dm.q, << ALPHABET[dm.r + 1] >> \o acc)

\* _to_base36(n)
to_base36(n) == IF IsZero(n) THEN << "0" >> ELSE digits36(n, <<>>)

\* str.rjust(width, "0")
RECURSIVE rjust0(_, _)
rjust0(s, width) == IF Len(s) >= width THEN s ELSE rjust0(<< "0" >> \o s, width)

\* the clock in whole seconds, as limbs
NowSeconds == { << 17, 6235, 7600 >>, << 17, 9999, 9999 >> }

\* the sequence numbers by source: the row of the registry the append
\* answered, max(used, 2) of the row-count fallback, int(timestamp()) of
\* the last fallback of allocate_unique_seq, and int(timestamp() * 10_000)
\* when allocate_unique_seq raises
SeqSources ==
    { [via |-> "row", n |-> << r >>] : r \in {2, 36, 9999} }
    \cup { [via |-> "row", n |-> << 1000, 0 >>] }
    \cup { [via |-> "rowcount", n |-> << IF used > 2 THEN used ELSE 2 >>] : used \in {0, 1, 40} }
    \cup { [via |-> "timestamp", n |-> t] : t \in NowSeconds }
    \cup { [via |-> "timestamp10000", n |-> t \o << f >>] : t \in NowSeconds, f \in {0, 9999} }

NoPid == [date |-> "", wh |-> <<>>, seq36 |-> <<>>, check |-> ""]

\* generate_pallet_id(warehouse) with the sequence number src.n; the
\* check character is a CRC32 of the rest, which is not computed here
generate_pallet_id(warehouse, n, check) ==
    [date |-> "yymmdd", wh |-> scope_of(warehouse),
     seq36 |-> rjust0(to_base36(n), 6), check |-> check]

PidInit ==
    /\ AllocFrozen
    /\ UpsertFrozen
    /\ SeqFrozen
    /\ BindFrozen
    /\ CreateFrozen
    /\ TransferFrozen
    /\ TrackFrozen
    /\ ExtractFrozen
    /\ RetryFrozen
    /\ DeltaFrozen
    /\ ShipFrozen
    /\ pwarehouse \in Scopes
    /\ pseq \in SeqSources
    /\ pid = NoPid

GeneratePalletId ==
    /\ pid = NoPid
    /\ \E c \in 1..Len(ALPHABET) :
           pid' = generate_pallet_id(pwarehouse, pseq.n, ALPHABET[c])
    /\ UNCHANGED <<pwarehouse, pseq, pidFrame>>

PidNext == GeneratePalletId

SpecPid == PidInit /\ [][PidNext]_vars

Base36Digits == { ALPHABET[i] : i \in 1..Len(ALPHABET) }

\* C20: for every warehouse argument and every source of the sequence
\* number the ID has a scope field of exactly 3 characters and a sequence
\* field of exactly 6 base-36 digits.
C20_FieldWidths ==
    pid # NoPid =>
        /\ Len(pid.wh) = 3
        /\ Len(pid.seq36) = 6
        /\ \A i \in 1..Len(pid.seq36) : pid.seq36[i] \in Base36Digits

\* the shares are examined on records that all carry the cost 1.00
SharesInit ==
    /\ DeltaInit
    /\ \A i \in 1..Len(track) : track[i].priced /\ track[i].cost = 100

SpecShares == SharesInit /\ [][DeltaNext]_vars

\* the waybills of a record that have a positive weight
Weighted(ws) == { wb \in ws : weight_map[wb] > 0 }

\* C25: within a tracking record the share of a waybill is its weight over
\* the sum of the positive weights and zero if its weight is missing or not
\* positive; if no waybill has a positive weight every share is 1/N; in
\* both cases the shares of the record sum to 1.
C25_SharesOfRecord ==
    \A i \in 1..(row_i - 1) :
        LET ws == track[i].wbs
            s  == shares(weight_map, ws)
            W  == SumOver(weight_map, Weighted(ws))
        IN  /\ \A wb \in ws : s[wb].d > 0
            /\ \A wb \in ws \ Weighted(ws) : Weighted(ws) # {} => s[wb].n = 0
            /\ \A wb \in Weighted(ws) : s[wb].n * W = weight_map[wb] * s[wb].d
            /\ Weighted(ws) = {} => \A wb \in ws : s[wb].n * Cardinality(ws) = s[wb].d
            /\ \A wb \in ws : SumOver([x \in ws |-> s[x].n * s[wb].d], ws) = s[wb].d * s[wb].d

\* both cases were gone through: a record with a weighted and an
\* unweighted waybill, and a record of two waybills without any weight
C25_Witness ==
    /\ row_i = 3
    /\ Weighted(track[1].wbs) # {} /\ Weighted(track[1].wbs) # track[1].wbs
    /\ Weighted(track[2].wbs) = {} /\ Cardinality(track[2].wbs) = 2

MaxTrackRecs == 2

RawPids == {"P1", "p1", "P2"}

RawTrucks == {"T1", "t-1", "T2"}

DayNumbers == {45659, 45660}

BlankDay == [form |-> "blank", n |-> 0]

RawDays == { BlankDay } \cup { [form |-> f, n |-> n] : f \in {"iso", "serial"}, n \in DayNumbers }

\* _norm_pid: str(s).strip().upper()
norm_pid(s) == IF s = "p1" THEN "P1" ELSE s

\* _norm_trk: upper case, blanks and dashes removed
norm_trk(s) == IF s = "t-1" THEN "T1" ELSE s

\* _norm_day: _fmt_date(_parse_sheet_value_to_date(s)), "" being 0
norm_day(d) == IF d.form = "blank" THEN 0 ELSE d.n

\* load_ship_tracking_raw: 日期 becomes the text YYYY-MM-DD or ""
load_ship_tracking_raw(rows) ==
    [i \in 1..Len(rows) |->
        [rows[i] EXCEPT !.day = IF @.form = "blank" THEN @ ELSE [form |-> "iso", n |-> @.n]]]

\* ws.append_rows(rows, value_input_option="USER_ENTERED"): the sheet takes
\* a text as if it were typed in; a date text is stored as a serial number
\* and a text of digits as the number it writes, which the unformatted
\* read gives back without its leading zero
user_entered(rows) ==
    [i \in 1..Len(rows) |->
        [rows[i] EXCEPT !.day = IF @.form = "blank" THEN @ ELSE [form |-> "serial", n |-> @.n],
                        !.trk = IF @ = "07" THEN "7" ELSE @]]

key3(r) == << norm_pid(r.pid), norm_trk(r.trk), norm_day(r.day) >>

key2(r) == << norm_pid(r.pid), norm_trk(r.trk) >>

RECURSIVE SubBy(_, _, _)
SubBy(t, I, k) ==
    IF k > Len(t) THEN <<>>
    ELSE (IF k \in I THEN << t[k] >> ELSE <<>>) \o SubBy(t, I, k + 1)

\* 1) ~track.duplicated(subset=[pid, trk, day], keep="last")
step1(t) == { i \in 1..Len(t) : \A j \in (i + 1)..Len(t) : key3(t[j]) # key3(t[i]) }

\* 1.5) sort by (pid, trk, has_day descending), then
\* drop_duplicates(subset=[pid, trk], keep="first")
step15(t) ==
    { i \in 1..Len(t) :
        LET grp   == { j \in 1..Len(t) : key2(t[j]) = key2(t[i]) }
            dated == { j \in grp : norm_day(t[j].day) # 0 }
            from  == IF dated # {} THEN dated ELSE grp
        IN  i \in from /\ \A j \in from : i <= j }

\* 2) a blank-day row is dropped when a later row has its (pid, trk, cost)
step2(t) ==
    { i \in 1..Len(t) :
        ~(/\ norm_day(t[i].day) = 0
          /\ \E j \in (i + 1)..Len(t) : key2(t[j]) = key2(t[i]) /\ t[j].cost = t[i].cost) }

\* the three steps in turn
dedupe(t) ==
    LET t1 == SubBy(t, step1(t), 1)
        t2 == SubBy(t1, step15(t1), 1)
    IN  SubBy(t2, step2(t2), 1)

\* the rows of t that dedupe keeps, by their place in t
kept_rows(t) == { i \in 1..Len(t) : \E k \in 1..Len(dedupe(t)) : dedupe(t)[k] = t[i] }

\* 收费重 of the arrivals sheet: every waybill weighs the same
UnitWeights == [wb \in DeltaUnits |-> 1]

\* the loop over the records, for the cost
RECURSIVE cost_loop(_, _)
cost_loop(t, w2c) ==
    IF t = <<>> THEN w2c
    ELSE cost_loop(Tail(t), track_row(w2c, UnitWeights, Head(t)))

\* wb2_trucks[wb]: str(truck_no).strip() of the records that name wb
trucks_of(t, wb) == { t[i].trk : i \in { k \in 1..Len(t) : wb \in t[k].wbs } }

\* wb2_date[wb]: the earliest day of the records that name wb, 0 if none
date_of(t, wb) ==
    LET ds == { norm_day(t[i].day) : i \in { k \in 1..Len(t) : wb \in t[k].wbs } } \ {0}
    IN  IF ds = {} THEN 0 ELSE CHOOSE d \in ds : \A e \in ds : d <= e

\* wb_from_track
wb_from(t) == UNION { t[i].wbs : i \in 1..Len(t) }

\* build_waybill_delta(track_override): per waybill of wb_from_track the
\* cost in cents, the trucks and the ship day
build_waybill_delta(remote, override, up) ==
    LET t   == dedupe(load_ship_tracking_raw(remote) \o override)
        w2c == cost_loop(t, [wb \in DeltaUnits |-> NoCostYet])
    IN  [wb \in wb_from(t) |->
            [cost |-> out_cost(w2c, wb, up), trucks |-> trucks_of(t, wb), day |-> date_of(t, wb)]]

NotBuilt == [over |-> <<>>, vis |-> FALSE, up |-> FALSE, kept |-> {}, delta |-> <<>>]

\* the records a pure call of build_waybill_delta may find in the sheet
SheetRecs ==
    { [pid |-> p, trk |-> k, day |-> d, cost |-> c, wbs |-> {"W1"}, priced |-> TRUE] :
        p \in RawPids, k \in RawTrucks, d \in RawDays, c \in {100, 250} }

DedupeInit ==
    /\ BindFrozen
    /\ AllocFrozen
    /\ UpsertFrozen
    /\ SeqFrozen
    /\ ExtractFrozen
    /\ RetryFrozen
    /\ DeltaFrozen
    /\ ShipFrozen
    /\ PidFrozen
    /\ CreateFrozen
    /\ TransferFrozen
    /\ ttrack \in SeqsUpTo(SheetRecs, MaxTrackRecs)
    /\ tover = <<>>
    /\ tmaster = EmptySheet
    /\ tbuilt = NotBuilt
    /\ tph = "idle"

\* build_waybill_delta() on the sheet as it is, without an override
BuildDelta ==
    /\ tph = "idle"
    /\ \E up \in BOOLEAN :
           tbuilt' = [over |-> <<>>, vis |-> TRUE, up |-> up,
                      kept |-> kept_rows(load_ship_tracking_raw(ttrack)),
                      delta |-> build_waybill_delta(ttrack, <<>>, up)]
    /\ tph' = "built"
    /\ UNCHANGED <<ttrack, tover, tmaster, trackFrame>>

DedupeNext == BuildDelta

SpecDedupe == DedupeInit /\ [][DedupeNext]_vars

\* record j of the sheet justifies the removal of record i
Justifies(j, i) ==
    /\ j # i
    /\ \/ key3(ttrack[j]) = key3(ttrack[i])
       \/ /\ key2(ttrack[j]) = key2(ttrack[i])
          /\ norm_day(ttrack[i].day) = 0
          /\ norm_day(ttrack[j].day) # 0

\* C23: build_waybill_delta removes a tracking record only when another
\* record has the same normalized (pallet, truck, date), or the same
\* (pallet, truck) while the removed record's date is blank and the other's
\* is not; records of one pallet and truck with different dates are kept.
C23_RemovedOnlyIfDuplicate ==
    tph = "built" =>
        \A i \in 1..Len(ttrack) :
            i \notin tbuilt.kept => \E j \in 1..Len(ttrack) : Justifies(j, i)

(***************************************************************************)
(* Rounds of ship upload and summary update (app2.py)                      *)
(*                                                                         *)
(* A round uploads the record of one pallet to 发货追踪 and keeps it as    *)
(* the override of the session; 更新到『运单全链路汇总』 then builds the   *)
(* delta and upserts it.  The remote read may or may not show the row      *)
(* that was just uploaded.                                                 *)
(***************************************************************************)
\* 卡车单号 as typed into the form
TruckInputs == {"T1", "T2", "07"}

\* the records one upload writes: a pallet that is not in the sheet yet
UploadRecs ==
    { [pid |-> p, trk |-> k, day |-> [form |-> "iso", n |-> n], cost |-> c, wbs |-> ws, priced |-> TRUE] :
        p \in {"P1", "P2"}, k \in TruckInputs, n \in DayNumbers, c \in {100, 250},
        ws \in (SUBSET {"W1", "W2"}) \ {{}} }

\* the truck texts in the order of sorted()
TruckOrder == << "07", "7", "T1", "T2" >>

RECURSIVE join_sorted(_, _)
join_sorted(ts, k) ==
    IF k > Len(TruckOrder) THEN <<>>
    ELSE LET rest == join_sorted(ts, k + 1)
         IN  IF TruckOrder[k] \notin ts THEN rest
             ELSE IF rest = <<>> THEN << TruckOrder[k] >>
             ELSE << TruckOrder[k], ", " >> \o rest

\* ", ".join(sorted(trucks))
trucks_cell(ts) == IF ts = {} THEN PdNA ELSE join_sorted(ts, 1)

\* the delta row of a waybill: the columns of the rounds are the trucks and
\* the cost; the others have nothing to give
delta_row(dl, wb) ==
    [id |-> wb,
     vals |-> [eta |-> NaN, arrive_date |-> NaN,
               ship_truck |-> trucks_cell(dl[wb].trucks),
               ship_cost |-> << ToString(dl[wb].cost) >>]]

\* df_delta, one row per waybill, sorted
df_delta(dl) ==
    LET ids == SelectSeq(IdOrder, LAMBDA wb : wb \in DOMAIN dl)
    IN  [k \in 1..Len(ids) |-> delta_row(dl, ids[k])]

RoundsInit ==
    /\ BindFrozen
    /\ AllocFrozen
    /\ UpsertFrozen
    /\ SeqFrozen
    /\ ExtractFrozen
    /\ RetryFrozen
    /\ DeltaFrozen
    /\ ShipFrozen
    /\ PidFrozen
    /\ CreateFrozen
    /\ TransferFrozen
    /\ ttrack = <<>>
    /\ tover = <<>>
    /\ tmaster = [header |-> FullHeader, rows |-> <<>>]
    /\ tbuilt = NotBuilt
    /\ tph = "idle"

\* 上传到『发货追踪』 with the record r of a pallet that is not shipped yet
ShipUpload(r) ==
    /\ tph \in {"idle", "synced"}
    /\ Len(ttrack) < MaxTrackRecs
    /\ \A i \in 1..Len(ttrack) : norm_pid(ttrack[i].pid) # norm_pid(r.pid)
    /\ ttrack' = ttrack \o user_entered(<< r >>)
    /\ tover' = << r >>
    /\ tbuilt' = NotBuilt
    /\ tph' = "uploaded"
    /\ UNCHANGED <<tmaster, trackFrame>>

\* 更新到『运单全链路汇总』: the delta is built from the remote read, which
\* shows the uploaded row or not yet, and from the override, and upserted;
\* the override is dropped when the upsert answers True
UpdateSummary ==
    /\ tph = "uploaded"
    /\ \E vis \in BOOLEAN : \E up \in BOOLEAN :
         LET remote == IF vis THEN ttrack ELSE SubSeq(ttrack, 1, Len(ttrack) - Len(tover))
             dl     == build_waybill_delta(remote, tover, up)
             u      == upsert_waybill_summary_partial(tmaster, df_delta(dl))
         IN  /\ tbuilt' = [over |-> tover, vis |-> vis, up |-> up,
                           kept |-> kept_rows(load_ship_tracking_raw(remote) \o tover),
                           delta |-> dl]
             /\ tmaster' = ApplyWrites(tmaster, u.writes, Len(u.writes))
             /\ tover' = IF u.ret = "true" THEN <<>> ELSE tover
             /\ tph' = IF u.ret = "true" THEN "synced" ELSE "uploaded"
    /\ UNCHANGED <<ttrack, trackFrame>>

RoundsNext == UpdateSummary \/ \E r \in UploadRecs : ShipUpload(r)

SpecRounds == RoundsInit /\ [][RoundsNext]_vars

\* the shares of waybill wb over all the records of the sheet, in cents
RECURSIVE ShareSum(_, _)
ShareSum(t, wb) ==
    IF t = <<>> THEN 0
    ELSE (IF wb \in Head(t).wbs THEN Head(t).cost \div Cardinality(Head(t).wbs) ELSE 0)
         + ShareSum(Tail(t), wb)

\* the cell 发走费用 of waybill wb in the summary sheet
CostCell(wb) ==
    LET i == CHOOSE k \in 1..Len(tmaster.rows) : tmaster.rows[k][col_idx(tmaster.header, IdCol)] = << wb >>
    IN  tmaster.rows[i][col_idx(tmaster.header, "ship_cost")]

\* C22: after any sequence of rounds of ship upload and upsert the cell
\* 发走费用 of a waybill is the sum of its shares over all tracking records
\* that name it, also when it was shipped on two pallets in two rounds.
C22_CostIsSumOfShares ==
    tph = "synced" =>
        \A wb \in wb_from(ttrack) : CostCell(wb) = << ToString(ShareSum(ttrack, wb)) >>

\* C24: build_waybill_delta returns the same cost, trucks and ship day per
\* waybill whether or not the remote read shows the row that is held in
\* the override; a row present in both is counted once.
C24_SameWithOrWithoutRemote ==
    (tbuilt # NotBuilt /\ tbuilt.over # <<>>) =>
        /\ tbuilt.delta = build_waybill_delta(ttrack, tbuilt.over, tbuilt.up)
        /\ tbuilt.delta = build_waybill_delta(SubSeq(ttrack, 1, Len(ttrack) - Len(tbuilt.over)),
                                              tbuilt.over, tbuilt.up)
(***************************************************************************)
(* upsert_transfer_rows (app3.py)                                          *)
(*                                                                         *)
(* A cell is its text, "" when it is empty.  Column names:                 *)
(*   "wb" 运单号, "a" and "b" two columns of 运单全链路汇总,               *)
(*   "t_truck" 转仓卡车单号, "t_cost" 转仓发出成本,                        *)
(*   "t_dest" 转仓目的地仓点, "t_updated" 最后更新时间.                    *)
(* The headers examined have no blank and no repeated name, so that        *)
(* _sanitize_header leaves them as they are.                               *)
(***************************************************************************)
MaxTransferRows == 2

MaxTransferRuns == 2

COL_WAYBILL == "wb"

TRANSFER_COLS == << "t_truck", "t_cost", "t_dest", "t_updated" >>

Names(h) == { h[i] : i \in 1..Len(h) }

\* strip_transfer
strip_transfer(cols) == SelectSeq(cols, LAMBDA c : c \notin Names(TRANSFER_COLS))

\* _pad_rows_to_header, for one row
pad_row(r, n) == [j \in 1..n |-> IF j <= Len(r) THEN r[j] ELSE ""]

\* the value a row holds under the column c of the header h
CellUnder(h, r, c) ==
    LET j == CHOOSE k \in 1..Len(h) : h[k] = c
    IN  IF j <= Len(r) THEN r[j] ELSE ""

\* the key order of a dict of the batch: df_full.columns, then the four
\* transfer columns
dict_keys(src) == src \o TRANSFER_COLS

\* keys_all: the columns of the sheet without the four, the other columns
\* of the batch, the four at the end
keys_all(cur_header, src) ==
    LET old == strip_transfer(cur_header)
    IN  old
        \o SelectSeq(strip_transfer(dict_keys(src)), LAMBDA c : c \notin Names(old))
        \o TRANSFER_COLS

\* wb2row: the last row that holds the waybill under the column 运单号 of
\* the header h, 0 if there is none
wb2row(h, rows, wb) ==
    LET at == { i \in 1..Len(rows) : CellUnder(h, rows[i], COL_WAYBILL) = wb }
    IN  IF wb = "" \/ at = {} THEN 0 ELSE CHOOSE i \in at : \A k \in at : k <= i

\* row_vals: the values of the dict in the order of the header
row_vals(h, rd) == [j \in 1..Len(h) |-> IF h[j] \in DOMAIN rd THEN rd[h[j]] ELSE ""]

\* the sheet that upsert_transfer_rows leaves: the header row is rewritten
\* when it differs from keys_all, the rows of the batch that the sheet has
\* are overwritten in place, the others are appended
upsert_transfer_rows(t, src, rds) ==
    LET h    == keys_all(IF t.header = <<>> THEN << COL_WAYBILL >> ELSE t.header, src)
        hit  == [k \in 1..Len(rds) |-> wb2row(h, t.rows, rds[k][COL_WAYBILL])]
        upd  == [i \in 1..Len(t.rows) |->
                    LET ks == { k \in 1..Len(rds) : hit[k] = i }
                    IN  IF ks = {} THEN t.rows[i]
                        ELSE row_vals(h, rds[CHOOSE k \in ks : \A m \in ks : m <= k])]
        app  == SelectSeq([k \in 1..Len(rds) |-> [k |-> k, v |-> row_vals(h, rds[k])]],
                          LAMBDA e : hit[e.k] = 0)
    IN  [header |-> h, rows |-> upd \o [k \in 1..Len(app) |-> app[k].v]]

\* ---- the sheets and batches examined ----
\* the columns of 运单全链路汇总 at the time of the click
SrcHeaders == { << "wb", "a" >>, << "wb", "a", "b" >> }

\* what a row written earlier holds under a column
OldCell(c, wb) ==
    CASE c = "wb"        -> wb
      [] c = "a"         -> "x0"
      [] c = "b"         -> "y0"
      [] c = "t_truck"   -> "K1"
      [] c = "t_cost"    -> "9.0"
      [] c = "t_dest"    -> "D1"
      [] c = "t_updated" -> "u0"

\* the dict of a selected waybill
NewDict(src, wb) ==
    [c \in Names(dict_keys(src)) |->
        CASE c = "wb"        -> wb
          [] c = "a"         -> "x1"
          [] c = "b"         -> "y1"
          [] c = "t_truck"   -> "K2"
          [] c = "t_cost"    -> "8.0"
          [] c = "t_dest"    -> "D2"
          [] c = "t_updated" -> "u1"]

\* sel: the waybills selected, each once
Selections == { << "W1" >>, << "W2" >>, << "W1", "W2" >>, << "W2", "W1" >> }

TransferHeaders == { << "wb" >> } \cup { keys_all(<< "wb" >>, src) : src \in SrcHeaders }

TransferSheets ==
    { EmptySheet }
    \cup { [header |-> h, rows |-> [i \in 1..Len(ws) |-> [j \in 1..Len(h) |-> OldCell(h[j], ws[i])]]] :
              h \in TransferHeaders, ws \in SeqsUpTo0({"W1", "W3"}, MaxTransferRows) }

TransferInit ==
    /\ BindFrozen
    /\ AllocFrozen
    /\ UpsertFrozen
    /\ SeqFrozen
    /\ ExtractFrozen
    /\ RetryFrozen
    /\ DeltaFrozen
    /\ ShipFrozen
    /\ PidFrozen
    /\ CreateFrozen
    /\ TrackFrozen
    /\ ws_trn \in TransferSheets
    /\ trn_prev = ws_trn
    /\ rows_dicts = <<>>
    /\ trn_runs = 0

\* 写入『转仓追踪』: the rows of the selected waybills are copied from the
\* summary and upserted
WriteTransfer(src, sel) ==
    /\ trn_runs < MaxTransferRuns
    /\ LET rds == [k \in 1..Len(sel) |-> NewDict(src, sel[k])]
       IN  /\ ws_trn' = upsert_transfer_rows(ws_trn, src, rds)
           /\ rows_dicts' = rds
    /\ trn_prev' = ws_trn
    /\ trn_runs' = trn_runs + 1
    /\ UNCHANGED <<transferFrame>>

TransferNext == \E src \in SrcHeaders : \E sel \in Selections : WriteTransfer(src, sel)

SpecTransfer == TransferInit /\ [][TransferNext]_vars

\* the waybills of the batch
BatchIds == { rows_dicts[k][COL_WAYBILL] : k \in 1..Len(rows_dicts) }

\* C29: a run of upsert_transfer_rows leaves every row that was there and
\* whose waybill is not in the batch unchanged as a mapping from column to
\* value, also when the header is rewritten with new columns before the
\* four transfer columns.
C29_OtherRowsKept ==
    (trn_runs > 0 /\ trn_prev.header # <<>>) =>
        \A i \in 1..Len(trn_prev.rows) :
            CellUnder(trn_prev.header, trn_prev.rows[i], COL_WAYBILL) \notin BatchIds =>
                \A c \in Names(ws_trn.header) :
                    CellUnder(ws_trn.header, ws_trn.rows[i], c)
                        = IF c \in Names(trn_prev.header)
                          THEN CellUnder(trn_prev.header, trn_prev.rows[i], c)
                          ELSE ""
(***************************************************************************)
(* The buttons 新建托盘 and 批量新建托盘 with any sequence source (app.py)  *)
(*                                                                         *)
(* Within a session on one day the date and the warehouse of the IDs are   *)
(* the same and _to_base36 is one-to-one: a pallet ID is named here by its *)
(* sequence number.  A handler is followed call by call of                 *)
(* generate_pallet_id, since time passes between the calls.                *)
(***************************************************************************)
MaxOpen == 3

MaxBulk == 2

MaxRegistry == 6

\* while new_pallet in all_pallets and tries < 5
one_tries == 5

\* while (p in existing or p in created) and tries < 8
bulk_tries == 8

InSeq(x, s) == \E i \in 1..Len(s) : s[i] = x

\* one call of generate_pallet_id: the ID of the row of the registry that
\* the append names, or of the row count read after the append, or of the
\* time stamp when the registry cannot be read
Generated ==
    \/ /\ creg < MaxRegistry
       /\ creg' = append_row(creg).rows
       /\ new_pallet' = row_of(append_row(creg).updatedRange)
    \/ /\ creg < MaxRegistry
       /\ creg' = append_row(creg).rows
       /\ new_pallet' = row_count(append_row(creg).rows)
    \/ /\ creg' = creg
       /\ new_pallet' = Timestamp(cnow)

CreateInit ==
    /\ BindFrozen
    /\ AllocFrozen
    /\ UpsertFrozen
    /\ SeqFrozen
    /\ ExtractFrozen
    /\ RetryFrozen
    /\ DeltaFrozen
    /\ ShipFrozen
    /\ PidFrozen
    /\ TrackFrozen
    /\ TransferFrozen
    /\ all_pallets = <<>>
    /\ new_pallet = 0
    /\ gen_tries = 0
    /\ created = <<>>
    /\ bulk_left = 0
    /\ cpc = "idle"
    /\ creg = 1
    /\ cnow = 0

\* 新建托盘: new_pallet = generate_pallet_id(warehouse); tries = 0
CreateOne ==
    /\ cpc = "idle"
    /\ Len(all_pallets) < MaxOpen
    /\ Generated
    /\ gen_tries' = 0
    /\ cpc' = "one"
    /\ UNCHANGED <<all_pallets, created, bulk_left, cnow, createFrame>>

\* the body of the while loop of 新建托盘
CreateOneAgain ==
    /\ cpc = "one"
    /\ InSeq(new_pallet, all_pallets) /\ gen_tries < one_tries
    /\ Generated
    /\ gen_tries' = gen_tries + 1
    /\ UNCHANGED <<all_pallets, created, bulk_left, cpc, cnow, createFrame>>

\* st.session_state["all_pallets"].append(new_pallet)
CreateOneAppend ==
    /\ cpc = "one"
    /\ ~(InSeq(new_pallet, all_pallets) /\ gen_tries < one_tries)
    /\ all_pallets' = Append(all_pallets, new_pallet)
    /\ new_pallet' = 0
    /\ gen_tries' = 0
    /\ cpc' = "idle"
    /\ UNCHANGED <<created, bulk_left, creg, cnow, createFrame>>

\* 批量新建托盘 with bulk_n = n: created = []
CreateBulk(n) ==
    /\ cpc = "idle"
    /\ Len(all_pallets) + n <= MaxOpen
    /\ created' = <<>>
    /\ bulk_left' = n
    /\ cpc' = "bulk"
    /\ UNCHANGED <<all_pallets, new_pallet, gen_tries, creg, cnow, createFrame>>

\* a pass of the for loop: p = generate_pallet_id(warehouse); tries = 0
BulkGenerate ==
    /\ cpc = "bulk"
    /\ bulk_left > 0
    /\ Generated
    /\ gen_tries' = 0
    /\ cpc' = "bulk_loop"
    /\ UNCHANGED <<all_pallets, created, bulk_left, cnow, createFrame>>

\* the body of the while loop of the bulk handler
BulkAgain ==
    /\ cpc = "bulk_loop"
    /\ (InSeq(new_pallet, all_pallets) \/ InSeq(new_pallet, created)) /\ gen_tries < bulk_tries
    /\ Generated
    /\ gen_tries' = gen_tries + 1
    /\ UNCHANGED <<all_pallets, created, bulk_left, cpc, cnow, createFrame>>

\* created.append(p)
BulkKeep ==
    /\ cpc = "bulk_loop"
    /\ ~((InSeq(new_pallet, all_pallets) \/ InSeq(new_pallet, created)) /\ gen_tries < bulk_tries)
    /\ created' = Append(created, new_pallet)
    /\ bulk_left' = bulk_left - 1
    /\ new_pallet' = 0
    /\ gen_tries' = 0
    /\ cpc' = "bulk"
    /\ UNCHANGED <<all_pallets, creg, cnow, createFrame>>

\* st.session_state["all_pallets"].extend(created)
BulkExtend ==
    /\ cpc = "bulk"
    /\ bulk_left = 0
    /\ all_pallets' = all_pallets \o created
    /\ created' = <<>>
    /\ cpc' = "idle"
    /\ UNCHANGED <<new_pallet, gen_tries, bulk_left, creg, cnow, createFrame>>

\* a second goes by
ClockTick ==
    /\ cnow < MaxClock
    /\ cnow' = cnow + 1
    /\ UNCHANGED <<all_pallets, new_pallet, gen_tries, created, bulk_left, cpc, creg, createFrame>>

CreateNext ==
    \/ CreateOne
    \/ CreateOneAgain
    \/ CreateOneAppend
    \/ \E n \in 1..MaxBulk : CreateBulk(n)
    \/ BulkGenerate
    \/ BulkAgain
    \/ BulkKeep
    \/ BulkExtend
    \/ ClockTick

SpecCreate == CreateInit /\ [][CreateNext]_vars

\* C30: after any sequence of the two creating actions, whatever the
\* sequence source returns (registry row, row count or time stamp), the
\* list of open pallets of the session never holds a pallet ID twice.
C30_NoPalletTwice ==
    \A i \in 1..Len(all_pallets) : \A j \in 1..Len(all_pallets) :
        i # j => all_pallets[i] # all_pallets[j]

====
